---- MODULE Spec2Model ----
(***************************************************************************)
(* State-machine model of the Sync Dispatcher of the backend service      *)
(* (backend-service/src/services/DataSynchronizer.ts) together with the   *)
(* collaborators it drives: the network call (util/fetchWithTimeout.ts)   *)
(* and the metadata translator / store (services/AppleMetadataService.ts).*)
(*                                                                         *)
(* One behaviour of Spec is one call of syncData(endpoint, data, method). *)
(* Every await of the code is a step of the model; the answers of the     *)
(* collaborators (network, file system) are chosen nondeterministically.  *)
(* SpecInvalid is the same call for submissions with a null entry,        *)
(* SpecResolve one call of the Conflict Resolution Service                *)
(* (services/ConflictResolutionService.ts), and SpecCalls one call of any *)
(* public operation of the Dispatcher, SpecPhoto one conversion of the    *)
(* Live Photo Service (src/unnamed/part_002) and SpecStore one call of    *)
(* saveMetadata or getMetadata (services/AppleMetadataService.ts).        *)
(***************************************************************************)
EXTENDS Integers, Sequences, FiniteSets, TLC

(***************************************************************************)
(* Program constants (DataSynchronizer.ts:30-32).                          *)
(***************************************************************************)
MAX_RETRIES == 5
BATCH_SIZE == 100
INITIAL_BACKOFF == 1000

(***************************************************************************)
(* Bounds of the model.                                                    *)
(***************************************************************************)
\* the largest submission (three batches: 100 + 100 + 50)
MaxRecords == 250
\* the number of records of a submission, counted from its end, that may
\* carry metadata
MaxMeta == 2
\* network calls of one batch are counted up to CallCap ("more than
\* MAX_RETRIES")
CallCap == 6
\* the numbers a field of a conflicting record may hold: 1..MaxValue
MaxValue == 2

Min(a, b) == IF a < b THEN a ELSE b

RECURSIVE Pow2(_)
\* Math.pow(2, n) for the n the retry loop uses
Pow2(n) == IF n = 0 THEN 1 ELSE 2 * Pow2(n - 1)

(***************************************************************************)
(* Optional values: <<>> is an absent (undefined) field, <<v>> a present  *)
(* one.                                                                    *)
(***************************************************************************)
None == <<>>
Some(v) == <<v>>
IsSome(o) == o # <<>>

(***************************************************************************)
(* Errors: name, message and HTTP-equivalent status (0: no status).       *)
(***************************************************************************)
Err(name, message, status) == [name |-> name, message |-> message, status |-> status]
AppError(message, status) == Err("AppError", message, status)
NoError == Err("none", "", 0)

\* resolveConflict has not answered
NotResolved == [kind |-> "pending", addr |-> 0, error |-> NoError, payload |-> <<>>,
                ran |-> "none", raised |-> NoError]

(***************************************************************************)
(* Metadata Translator: AppleMetadataService.convertToAppleMetadata.       *)
(* A platform-B bag has optional fields; dates are epoch milliseconds,    *)
(* tags a list of comma separated tokens, acl and customMetadata JSON     *)
(* texts ([valid, value]).                                                 *)
(***************************************************************************)
\* new Date(x).toISOString(): throws RangeError when x is undefined
DateOk(o) == IsSome(o)
ToISOString(o) == <<"ISO", o[1]>>

\* x || dflt for string / number fields
OrDefault(o, empty, dflt) == IF IsSome(o) /\ o[1] # empty THEN o[1] ELSE dflt

\* JSON.parse(text): throws SyntaxError when the text is not JSON
JsonOk(o) == (IsSome(o) /\ o[1].text # "") => o[1].valid
JsonParse(o, dflt) == IF IsSome(o) /\ o[1].text # "" THEN o[1].value ELSE dflt

RECURSIVE SplitComma(_, _)
\* tags.split(','): the tokens between the separators; cur is the token
\* being read
SplitComma(s, cur) ==
  IF s = <<>> THEN <<cur>>
  ELSE IF Head(s) = "," THEN <<cur>> \o SplitComma(Tail(s), <<>>)
       ELSE SplitComma(Tail(s), Append(cur, Head(s)))

ConvertOk(m) ==
  /\ DateOk(m.dateCreated)
  /\ DateOk(m.dateModified)
  /\ JsonOk(m.acl)
  /\ JsonOk(m.customMetadata)

ConvertToAppleMetadata(m) ==
  [ creationDate        |-> ToISOString(m.dateCreated),
    modificationDate    |-> ToISOString(m.dateModified),
    label               |-> OrDefault(m.label, "", ""),
    tags                |-> IF IsSome(m.tags) /\ m.tags[1] # <<>>
                            THEN SplitComma(m.tags[1], <<>>) ELSE <<>>,
    uti                 |-> OrDefault(m.uti, "", ""),
    quarantineAttribute |-> OrDefault(m.quarantineAttribute, "", ""),
    customIcon          |-> <<>>,
    finderFlags         |-> OrDefault(m.finderFlags, 0, 0),
    acl                 |-> JsonParse(m.acl, <<>>),
    spotlightComments   |-> OrDefault(m.spotlightComments, "", ""),
    contentCreationDate |-> IF IsSome(m.contentCreationDate) /\ m.contentCreationDate[1] # 0
                            THEN ToISOString(m.contentCreationDate)
                            ELSE ToISOString(m.dateCreated),
    customMetadata      |-> JsonParse(m.customMetadata, <<>>) ]

(***************************************************************************)
(* Inputs: the platform-B bags a record may carry.                         *)
(***************************************************************************)
\* a complete bag; k makes the bags of different records differ
GoodMeta(k) ==
  [ dateCreated |-> Some(1000 + k), dateModified |-> Some(2000 + k),
    label |-> Some("work"), tags |-> Some(<<"a", ",", "b">>),
    uti |-> None, quarantineAttribute |-> None, finderFlags |-> Some(k),
    acl |-> Some([text |-> "[u]", valid |-> TRUE, value |-> <<"u">>]),
    spotlightComments |-> None, contentCreationDate |-> None,
    customMetadata |-> None ]

\* a bag without dateCreated: new Date(undefined).toISOString() throws
BadMeta(k) == [GoodMeta(k) EXCEPT !.dateCreated = None]

MetaKinds == {"none", "good", "bad"}

MetaOf(kind, k) ==
  IF kind = "good" THEN Some(GoodMeta(k))
  ELSE IF kind = "bad" THEN Some(BadMeta(k))
  ELSE None

\* which of the last MaxMeta records carry which bag: p[1] is for the last
\* record of the submission, p[2] for the one before it, ...
MetaPatterns ==
  { p \in [1..MaxMeta -> MetaKinds] :
      \A k \in 2..MaxMeta : p[k] # "bad" /\ (p[k] = "good" => p[k - 1] # "none") }

\* the record at position k (1-based) of a submission of n records: ids are
\* 0-based as in the tests ("item-0", "item-1", ...)
Record(k, p, n) ==
  [ id |-> k - 1,
    metadata |-> IF k > n - MaxMeta THEN MetaOf(p[n - k + 1], k) ELSE None ]

\* a null entry of a submitted collection, or the null data of a pull: it
\* has no fields, reading .id or .metadata of it throws a TypeError.  Records
\* have ids >= 0.
NullEntry == [id |-> -1, metadata |-> None]
IsNull(r) == r.id = -1

Sizes == { n \in 1..MaxRecords :
             \/ n <= 2
             \/ n = BATCH_SIZE
             \/ n = BATCH_SIZE + 1
             \/ n = MaxRecords }

Methods == {"POST", "GET", "PUT", "DELETE"}

\* the submissions: a size and a metadata pattern.  Submissions of more than
\* two batches carry no metadata.
Submissions ==
  { sp \in Sizes \X MetaPatterns :
      sp[1] > 2 * BATCH_SIZE => \A k \in 1..MaxMeta : sp[2][k] = "none" }

\* non-success statuses the endpoint may answer with
Statuses == {401, 409, 429, 503}

\* the Retry-After headers (seconds, 0: no header) a response with status s
\* may carry
RetryAfters(s) == IF s = 429 THEN {0, 2} ELSE {0}

StatusText(s) ==
  CASE s = 401 -> "Unauthorized"
    [] s = 409 -> "Conflict"
    [] s = 429 -> "Too Many Requests"
    [] OTHER   -> "Service Unavailable"

\* the shapes of a success response body: one object, an array with one
\* element per record sent, or a body that is not JSON
Bodies == {"object", "array", "malformed"}

(***************************************************************************)
(* State.                                                                  *)
(***************************************************************************)
VARIABLES
  data,        \* the submitted records, in source order
  isArray,     \* Array.isArray(data): FALSE for a single record
  method,      \* the method argument of syncData
  pc,          \* where the call stands
  mode,        \* "single": syncData awaits singleSync; "batch": batchSync
  i,           \* batchSync: offset of the current batch (the loop's i)
  outerTry,    \* batchSync: loop index of retryOperation around singleSync
  innerTry,    \* singleSync: loop index of retryOperation around the fetch
  inFlight,    \* number of network requests that have not answered yet
  response,    \* singleSync: the response the fetch resolved with
  delay,       \* the delay of the timer retryOperation set last (ms), 0: none
  results,     \* batchSync: results; finally SyncResult.results
  errors,      \* batchSync: errors; finally SyncResult.errors
  outcome,     \* "pending", "returned" (a SyncResult) or "rejected"
  rejection,   \* the error syncData rejected with
  awaiting,    \* saveMetadata calls the current singleSync awaits
  background,  \* saveMetadata calls still running that no one awaits
  store,       \* metadata store: the {id, bag} files written
  saveCalls,   \* every saveMetadata(id, bag) call received so far
  \* history of the call, for stating the properties
  batchCalls,  \* network calls made for the current batch, up to CallCap
  batchAllFailed, \* every one of them failed (reject, timeout, non-success)
  batchAllOk,  \* every one of them was answered with success and a body that was read
  lastCause,   \* the underlying error that singleSync ended with last; cleared
               \* when singleSync is called again
  batchLog,    \* per finished batch: offset, size, status, response body
  okParsed,    \* positions of the records carried by a call answered with success and read
  sent,        \* the slices <<from, to>> (0-based, to exclusive) sent
  netMethods,  \* the methods of the network calls made
  serverWait,  \* the Retry-After (ms) of the last failed response, 0: none;
               \* cleared when singleSync is called again
  timedOut,    \* the last network call was aborted by the timer of
               \* fetchWithTimeout; cleared when the next call goes out
  \* the public operation that runs and its retryOperation
  op,          \* "syncData", "syncLivePhoto", "downloadAndConvertLivePhoto",
               \* "resolveConflict" or "syncFile"
  opPc,        \* where the operation stands
  opTry,       \* loop index of the operation's retryOperation
  opOutcome,   \* "pending", "returned" or "rejected"
  opError,     \* the error the operation rejected with
  engineCalls, \* calls of conflictResolutionService.resolveConflict made so far
  uploadCalls, \* network calls made by the ended syncData calls of syncLivePhoto
  converter,   \* the method of livePhotoService that answered in this attempt
  \* Conflict Resolution Service
  strategyName, \* the strategyName argument of resolveConflict
  heap,        \* the objects of the two records: address -> object
  localData,   \* address of the local record
  cloudData,   \* address of the cloud record
  resolved,    \* what resolveConflict answered
  \* Live Photo Service
  lpJob,       \* the conversion that runs: "convertToAndroidMotionPhoto" or
               \* "convertToAppleLivePhoto"
  lpPc,        \* where the conversion stands
  files,       \* the file system: path -> bytes of the file
  held,        \* the buffers the conversion has read: name -> bytes
  lpOut,       \* what the conversion answered
  toolRunning, \* ffmpeg runs
  toolInputs,  \* the bytes of every file ffmpeg was run on
  unlinked,    \* the paths fs.unlink was called on
  chained,     \* the input of convertToAppleLivePhoto is the buffer that
               \* convertToAndroidMotionPhoto returned
  \* Apple Metadata Service: the key of one saveMetadata or getMetadata
  fileId,      \* the fileId argument, split at the separator '/'
  storeOp,     \* "saveMetadata" or "getMetadata"
  filePath,    \* the path handed to fs.writeFile or fs.readFile, <<>>: none yet
  \* two conversions to the motion photo format that run at the same time
  now,         \* what Date.now() answers
  mp4Path,     \* per conversion: its temporary path (the timestamp in it)
  racePc,      \* per conversion: where it stands
  raceIn,      \* per conversion: the still and the clip it was called on
  raceHeld,    \* per conversion: the buffers it has read
  raceOut,     \* per conversion: what it answered
  tempDir,     \* the temporary directory: timestamp -> bytes of temp_<timestamp>.mp4
  \* convertToAppleMetadata as a function
  androidMetadata, \* the bag it is called on
  appleMetadata,   \* what it answered
  \* the sync queue of the orchestrator and its process-queue requests
  queue,       \* SyncQueue.queue: the tasks waiting
  enqueued,    \* every task enqueued so far, in order
  taken,       \* every task dequeued so far, in order
  drain        \* per process-queue request: where it stands, its task, its results

input == <<data, isArray, method>>
ctl   == <<pc, mode, i, outerTry, innerTry, inFlight, response, delay>>
out   == <<results, errors, outcome, rejection>>
meta  == <<awaiting, background, store, saveCalls>>
hist  == <<batchCalls, batchAllFailed, batchAllOk, lastCause, batchLog, okParsed, sent, netMethods, serverWait,
          timedOut>>
tally == <<engineCalls, uploadCalls, converter>>
caller == <<op, opPc, opTry, opOutcome, opError, tally>>
conflict == <<strategyName, heap, localData, cloudData, resolved>>
photo == <<lpJob, lpPc, files, held, lpOut, toolRunning, toolInputs, unlinked, chained>>
keying == <<fileId, storeOp, filePath>>
race  == <<now, mp4Path, racePc, raceIn, raceHeld, raceOut, tempDir>>
bagging == <<androidMetadata, appleMetadata>>
queueing == <<queue, enqueued, taken, drain>>
extra == <<race, bagging, queueing>>
aux   == <<photo, keying, extra>>
vars  == <<input, ctl, out, meta, hist, caller, conflict, aux>>

\* a response: retryAfter is its Retry-After header in seconds, 0 when the
\* header is absent
NoResponse == [ok |-> FALSE, status |-> 0, statusText |-> "", body |-> "none", retryAfter |-> 0]
OkResponse(b) == [ok |-> TRUE, status |-> 200, statusText |-> "OK", body |-> b, retryAfter |-> 0]
StatusResponse(s, ra) == [ok |-> FALSE, status |-> s, statusText |-> StatusText(s), body |-> "none", retryAfter |-> ra]

\* data.slice(from, to), 0-based, to exclusive
Slice(s, from, to) == SubSeq(s, from + 1, Min(to, Len(s)))

\* the data argument of the running singleSync
CurFrom == IF mode = "batch" THEN i ELSE 0
CurTo   == IF mode = "batch" THEN Min(i + BATCH_SIZE, Len(data)) ELSE Len(data)
CurData == Slice(data, CurFrom, CurTo)
CurPositions == (CurFrom + 1)..CurTo

\* the state of a call of syncData before its first step
SyncFresh ==
  /\ mode = "single"
  /\ i = 0
  /\ outerTry = 0
  /\ innerTry = 0
  /\ inFlight = 0
  /\ response = NoResponse
  /\ delay = 0
  /\ results = <<>>
  /\ errors = <<>>
  /\ outcome = "pending"
  /\ rejection = NoError
  /\ awaiting = {}
  /\ background = {}
  /\ store = {}
  /\ saveCalls = {}
  /\ batchCalls = 0
  /\ batchAllFailed = TRUE
  /\ batchAllOk = TRUE
  /\ lastCause = NoError
  /\ batchLog = <<>>
  /\ okParsed = {}
  /\ sent = {}
  /\ netMethods = {}
  /\ serverWait = 0
  /\ timedOut = FALSE

\* syncData has been called and has not run yet
SyncStart ==
  /\ pc = "start"
  /\ SyncFresh

\* syncData is called directly, no other public operation runs
NoTally ==
  /\ engineCalls = 0
  /\ uploadCalls = 0
  /\ converter = "none"

CallerIdle ==
  /\ op = "syncData"
  /\ opPc = "call"
  /\ opTry = 0
  /\ opOutcome = "pending"
  /\ opError = NoError
  /\ NoTally

\* no result of a conversion
NoOutput == [kind |-> "pending", buffer |-> <<>>, jpeg |-> <<>>, mov |-> <<>>, error |-> NoError]

\* a conversion that has not begun
PhotoFresh ==
  /\ held = <<>>
  /\ lpOut = NoOutput
  /\ toolRunning = FALSE
  /\ toolInputs = {}
  /\ unlinked = {}
  /\ chained = FALSE

\* no conversion of a Live Photo runs
PhotoIdle ==
  /\ lpJob = "none"
  /\ lpPc = "idle"
  /\ files = <<>>
  /\ PhotoFresh

\* no metadata file is keyed
KeyingIdle ==
  /\ fileId = <<>>
  /\ storeOp = "none"
  /\ filePath = <<>>

\* no pair of conversions runs
RaceIdle ==
  /\ now = 0
  /\ mp4Path = <<>>
  /\ racePc = <<>>
  /\ raceIn = <<>>
  /\ raceHeld = <<>>
  /\ raceOut = <<>>
  /\ tempDir = <<>>

\* convertToAppleMetadata is not called on its own
BaggingIdle ==
  /\ androidMetadata = <<>>
  /\ appleMetadata = <<>>

\* the orchestrator is not running
QueueIdle ==
  /\ queue = <<>>
  /\ enqueued = <<>>
  /\ taken = <<>>
  /\ drain = <<>>

ExtraIdle == RaceIdle /\ BaggingIdle /\ QueueIdle

AuxIdle == PhotoIdle /\ KeyingIdle /\ ExtraIdle

\* no public operation of the Dispatcher is called
NoCall ==
  /\ op = "none"
  /\ opPc = "call"
  /\ opTry = 0
  /\ opOutcome = "pending"
  /\ opError = NoError
  /\ NoTally

\* no conflict is being resolved
ConflictIdle ==
  /\ strategyName = "none"
  /\ heap = <<>>
  /\ localData = 0
  /\ cloudData = 0
  /\ resolved = NotResolved

Init ==
  /\ \E sp \in Submissions :
        data = [k \in 1..sp[1] |-> Record(k, sp[2], sp[1])]
  /\ isArray \in BOOLEAN
  /\ isArray = FALSE => Len(data) = 1
  /\ method \in Methods
  /\ isArray => method = "POST"
  /\ SyncStart
  /\ CallerIdle
  /\ ConflictIdle
  /\ AuxIdle

(***************************************************************************)
(* Values the code computes.                                               *)
(***************************************************************************)
\* response.json(): one object, or an array with one element per record
ResponseData(body, from, n) ==
  [ isArray |-> body = "array",
    value   |-> [batch |-> from, idx |-> 0],
    elems   |-> IF body = "array"
                THEN [k \in 1..n |-> [batch |-> from, idx |-> k]]
                ELSE <<>> ]

\* mutant of AsList: the response is pushed without being spread
AsList_NotSpread(rd) == <<rd.value>>

\* Array.isArray(result) ? result : [result]   (lines 52 and 71)
AsList(rd) == IF rd.isArray THEN rd.elems ELSE <<rd.value>>

\* mutant of BatchErrors: one entry for the batch instead of one per record
BatchErrors_OnePerBatch(batch, err) ==
  <<[id |-> batch[1].id, error |-> err.message]>>

\* batch.map((item) => ({ id: item.id, error: error.message }))  (lines 75-78)
BatchErrors(batch, err) ==
  [k \in 1..Len(batch) |-> [id |-> batch[k].id, error |-> err.message]]

\* the catch of singleSync (lines 125-128): whatever was thrown inside the
\* try is replaced
SingleSyncError(cause) == AppError("Failed to sync data", 500)

\* retryOperation (line 139): the attempt with index t was the last one
LastAttempt(t) == t = MAX_RETRIES - 1

\* retryOperation (line 140)
Backoff(t) == INITIAL_BACKOFF * Pow2(t)

\* the saveMetadata calls singleSync makes for the records at positions ps:
\* one per record with a metadata field that the translator converts
\* (lines 113-122)
HasMetadata(k) == ~IsNull(data[k]) /\ IsSome(data[k].metadata)
Converts(k) == HasMetadata(k) /\ ConvertOk(data[k].metadata[1])
\* the metadata step of singleSync throws for the record at position k:
\* item.metadata of a null entry (lines 114, 119), or the translator
\* (lines 115, 120)
MetadataStepThrows(k) == IsNull(data[k]) \/ (HasMetadata(k) /\ ~Converts(k))
\* the error Promise.all rejects with: the callback of a null entry rejects
\* before any translation has run
MetadataStepError(ps) ==
  IF \E k \in ps : IsNull(data[k])
  THEN Err("TypeError", "Cannot read properties of null (reading 'metadata')", 0)
  ELSE Err("RangeError", "Invalid time value", 0)
\* mutant of SaveCall: the bag is stored under the position of the record in
\* the batch instead of its id
SaveCall_WrongKey(k) == [id |-> k, bag |-> ConvertToAppleMetadata(data[k].metadata[1])]

SaveCall(k) == [id |-> data[k].id, bag |-> ConvertToAppleMetadata(data[k].metadata[1])]
SavesFor(ps) == { SaveCall(k) : k \in { q \in ps : Converts(q) } }

(***************************************************************************)
(* How a finished singleSync continues in its caller.  Both fragments set *)
(* pc, i, response, results, errors, outcome, rejection, delay, lastCause *)
(* and batchLog; the local response of singleSync is gone with it.        *)
(***************************************************************************)
LogEntry(status, body) ==
  [from |-> CurFrom, size |-> Len(CurData), status |-> status, body |-> body]

\* mutant of SingleSyncReturns: batchSync puts the results of a batch in
\* front of those it has
SingleSyncReturns_Unshift(body) ==
  LET list == AsList(ResponseData(body, CurFrom, Len(CurData))) IN
  /\ delay' = 0
  /\ response' = NoResponse
  /\ lastCause' = NoError
  /\ UNCHANGED <<errors, rejection>>
  /\ batchLog' = Append(batchLog, LogEntry("ok", body))
  /\ IF mode = "single"
     THEN /\ results' = list
          /\ outcome' = "returned"
          /\ pc' = "done"
          /\ i' = i
     ELSE /\ results' = list \o results
          /\ outcome' = outcome
          /\ pc' = "loop"
          /\ i' = i + BATCH_SIZE

\* singleSync returned responseData: syncData returns (lines 50-54), or
\* batchSync pushes the results and moves to the next batch (line 71)
SingleSyncReturns(body) ==
  LET list == AsList(ResponseData(body, CurFrom, Len(CurData))) IN
  /\ delay' = 0
  /\ response' = NoResponse
  /\ lastCause' = NoError
  /\ UNCHANGED <<errors, rejection>>
  /\ batchLog' = Append(batchLog, LogEntry("ok", body))
  /\ IF mode = "single"
     THEN /\ results' = list
          /\ outcome' = "returned"
          /\ pc' = "done"
          /\ i' = i
     ELSE /\ results' = results \o list
          /\ outcome' = outcome
          /\ pc' = "loop"
          /\ i' = i + BATCH_SIZE

\* mutant of BatchCatch: fail fast, the error of the batch ends batchSync
BatchCatch_FailFast(err) ==
  /\ outcome' = "rejected"
  /\ rejection' = err
  /\ pc' = "done"
  /\ UNCHANGED <<i, results, errors>>

\* batchSync gives the batch up (lines 72-80) and moves to the next batch.
\* item.id of a null entry throws inside the catch block (line 76): nothing
\* catches it, batchSync and with it syncData reject
BatchCatch(err) ==
  IF \E k \in 1..Len(CurData) : IsNull(CurData[k])
  THEN /\ outcome' = "rejected"
       /\ rejection' = Err("TypeError", "Cannot read properties of null (reading 'id')", 0)
       /\ pc' = "done"
       /\ UNCHANGED <<i, results, errors>>
  ELSE /\ errors' = errors \o BatchErrors(CurData, err)
       /\ i' = i + BATCH_SIZE
       /\ pc' = "loop"
       /\ UNCHANGED <<results, outcome, rejection>>

\* mutant of SyncDataRejects: the small submission is treated as a batch
\* whose failure is recorded in the SyncResult
SyncDataRejects_Recorded(err) ==
  /\ outcome' = "returned"
  /\ errors' = BatchErrors(data, err)
  /\ pc' = "done"
  /\ UNCHANGED <<i, results, rejection>>

\* syncData awaits singleSync without a try (line 50): what singleSync
\* throws rejects the call, no SyncResult is built
SyncDataRejects(err) ==
  /\ outcome' = "rejected"
  /\ rejection' = err
  /\ pc' = "done"
  /\ UNCHANGED <<i, results, errors>>

\* singleSync threw: syncData rejects (line 50), or retryOperation of
\* batchSync retries singleSync after a delay or rethrows to batchSync's
\* catch (lines 136-143, 72-80)
SingleSyncThrows(cause) ==
  LET err == SingleSyncError(cause) IN
  /\ response' = NoResponse
  /\ IF mode = "single"
     THEN /\ SyncDataRejects(err)
          /\ delay' = 0
          /\ lastCause' = cause
          /\ batchLog' = Append(batchLog, LogEntry("failed", "none"))
     ELSE IF LastAttempt(outerTry)
     THEN /\ BatchCatch(err)
          /\ delay' = 0
          /\ lastCause' = cause
          /\ batchLog' = Append(batchLog, LogEntry("failed", "none"))
     ELSE /\ pc' = "backoffOuter"
          /\ delay' = Backoff(outerTry)
          /\ lastCause' = cause
          /\ UNCHANGED <<i, results, errors, outcome, rejection, batchLog>>

(***************************************************************************)
(* Actions.                                                                *)
(***************************************************************************)
\* syncData (lines 47-50): more than BATCH_SIZE records go to batchSync,
\* anything else to one singleSync whose retryOperation starts
Start ==
  /\ pc = "start"
  /\ IF isArray /\ Len(data) > BATCH_SIZE
     THEN /\ mode' = "batch"
          /\ pc' = "loop"
     ELSE /\ mode' = "single"
          /\ pc' = "fetch"
  /\ UNCHANGED <<input, caller, conflict, aux, i, outerTry, innerTry, inFlight, response, delay, out, meta, hist>>

\* batchSync (lines 65-69): the loop test holds; cut the next batch and
\* start retryOperation(singleSync(batch))
BatchBegin ==
  /\ pc = "loop"
  /\ i < Len(data)
  /\ pc' = "fetch"
  /\ outerTry' = 0
  /\ innerTry' = 0
  /\ batchCalls' = 0
  /\ batchAllFailed' = TRUE
  /\ batchAllOk' = TRUE
  /\ lastCause' = NoError
  /\ serverWait' = 0
  /\ timedOut' = FALSE
  /\ UNCHANGED <<input, caller, conflict, aux, mode, i, inFlight, response, delay, out, meta,
                 batchLog, okParsed, sent, netMethods>>

\* batchSync (line 83): the loop is over, return { results, errors }
BatchReturn ==
  /\ pc = "loop"
  /\ ~(i < Len(data))
  /\ pc' = "done"
  /\ outcome' = "returned"
  /\ UNCHANGED <<input, caller, conflict, aux, mode, i, outerTry, innerTry, inFlight, response, delay,
                 results, errors, rejection, meta, hist>>

\* singleSync (lines 92-100), fetchWithTimeout (lines 17-26): the request
\* for the current data goes out; the body is left out for GET
IssueFetch ==
  /\ pc = "fetch"
  /\ pc' = "inflight"
  /\ inFlight' = inFlight + 1
  /\ delay' = 0
  /\ batchCalls' = Min(batchCalls + 1, CallCap)
  /\ sent' = sent \cup {[from |-> CurFrom, to |-> CurTo, body |-> method # "GET"]}
  /\ netMethods' = netMethods \cup {method}
  /\ timedOut' = FALSE
  /\ UNCHANGED <<input, caller, conflict, aux, mode, i, outerTry, innerTry, response, out, meta,
                 batchAllFailed, batchAllOk, lastCause, batchLog, okParsed, serverWait>>

\* the endpoint answers with a success status: fetchWithTimeout returns
\* (lines 27-28), retryOperation returns (line 137), response.ok (line 103)
FetchOk(body) ==
  /\ pc = "inflight"
  /\ inFlight' = inFlight - 1
  /\ response' = OkResponse(body)
  /\ pc' = "json"
  /\ batchAllFailed' = FALSE
  /\ UNCHANGED <<input, caller, conflict, aux, mode, i, outerTry, innerTry, delay, out, meta,
                 batchCalls, batchAllOk, lastCause, batchLog, okParsed, sent, netMethods, serverWait, timedOut>>

\* the endpoint answers with a non-success status: retryOperation returns
\* the response all the same (line 137), singleSync throws an AppError with
\* the status inside its own try (lines 103-108)
FetchStatus(s) ==
  /\ pc = "inflight"
  /\ inFlight' = inFlight - 1
  /\ \E ra \in RetryAfters(s) :
        /\ ~StatusResponse(s, ra).ok
        /\ serverWait' = 1000 * StatusResponse(s, ra).retryAfter
  /\ batchAllOk' = FALSE
  /\ SingleSyncThrows(AppError("Failed to sync data: " \o StatusText(s), s))
  /\ UNCHANGED <<input, caller, conflict, aux, mode, outerTry, innerTry, meta,
                 batchCalls, batchAllFailed, okParsed, sent, netMethods, timedOut>>

\* a rejected fetch inside retryOperation (lines 138-142): rethrown on the
\* last attempt, otherwise a timer is set
FetchThrows(e) ==
  /\ inFlight' = inFlight - 1
  /\ batchAllOk' = FALSE
  /\ IF LastAttempt(innerTry)
     THEN SingleSyncThrows(e)
     ELSE /\ pc' = "backoffInner"
          /\ delay' = Backoff(innerTry)
          /\ UNCHANGED <<i, response, out, lastCause, batchLog>>
  /\ timedOut' = (e.message = "Request timed out")
  /\ UNCHANGED <<input, caller, conflict, aux, mode, outerTry, innerTry, meta,
                 batchCalls, batchAllFailed, okParsed, sent, netMethods, serverWait>>

\* the network call rejects (fetchWithTimeout line 34)
FetchReject ==
  /\ pc = "inflight"
  /\ FetchThrows(Err("Error", "Network error", 0))

\* a Dispatcher that gives up on the first timeout instead of retrying
FetchTimeout_Fatal ==
  /\ pc = "inflight"
  /\ inFlight' = inFlight - 1
  /\ batchAllOk' = FALSE
  /\ timedOut' = TRUE
  /\ SingleSyncThrows(Err("Error", "Request timed out", 0))
  /\ UNCHANGED <<input, caller, conflict, aux, mode, outerTry, innerTry, meta,
                 batchCalls, batchAllFailed, okParsed, sent, netMethods, serverWait>>

\* the timer of fetchWithTimeout fires first and aborts the request
\* (lines 20, 30-33)
FetchTimeout ==
  /\ pc = "inflight"
  /\ FetchThrows(Err("Error", "Request timed out", 0))

\* retryOperation of singleSync: the timer fired, next loop round
InnerBackoff ==
  /\ pc = "backoffInner"
  /\ innerTry' = innerTry + 1
  /\ pc' = "fetch"
  /\ UNCHANGED <<input, caller, conflict, aux, mode, i, outerTry, inFlight, response, delay, out, meta, hist>>

\* retryOperation of batchSync: the timer fired, singleSync(batch) is
\* called again and starts its own retryOperation
OuterBackoff ==
  /\ pc = "backoffOuter"
  /\ outerTry' = outerTry + 1
  /\ innerTry' = 0
  /\ pc' = "fetch"
  /\ lastCause' = NoError
  /\ serverWait' = 0
  /\ timedOut' = FALSE
  /\ UNCHANGED <<input, caller, conflict, aux, mode, i, inFlight, response, delay, out, meta,
                 batchCalls, batchAllFailed, batchAllOk, batchLog, okParsed, sent, netMethods>>

\* response.json() rejects (line 110): caught by singleSync
JsonFails ==
  /\ pc = "json"
  /\ response.body = "malformed"
  /\ batchAllOk' = FALSE
  /\ SingleSyncThrows(Err("SyntaxError", "Unexpected token", 0))
  /\ UNCHANGED <<input, caller, conflict, aux, mode, outerTry, innerTry, inFlight, meta,
                 batchCalls, batchAllFailed, okParsed, sent, netMethods, serverWait, timedOut>>

\* response.json() resolves (line 110); then, in the same turn of the event
\* loop, every record with metadata is translated and the translated ones
\* are handed to saveMetadata (lines 112-122).  A translation that throws
\* rejects the Promise.all at once; the saves of the other records go on
\* without anyone awaiting them.
JsonRead ==
  /\ pc = "json"
  /\ response.body # "malformed"
  /\ okParsed' = okParsed \cup CurPositions
  /\ saveCalls' = saveCalls \cup SavesFor(CurPositions)
  /\ store' = store
  /\ IF \E k \in CurPositions : MetadataStepThrows(k)
     THEN /\ awaiting' = {}
          /\ background' = background \cup SavesFor(CurPositions)
          /\ SingleSyncThrows(MetadataStepError(CurPositions))
     ELSE IF SavesFor(CurPositions) = {}
     THEN /\ UNCHANGED <<awaiting, background>>
          /\ SingleSyncReturns(response.body)
     ELSE /\ awaiting' = SavesFor(CurPositions)
          /\ background' = background
          /\ pc' = "metadata"
          /\ UNCHANGED <<i, response, delay, out, lastCause, batchLog>>
  /\ UNCHANGED <<input, caller, conflict, aux, mode, outerTry, innerTry, inFlight,
                 batchCalls, batchAllFailed, batchAllOk, sent, netMethods, serverWait, timedOut>>

\* an awaited saveMetadata resolves (AppleMetadataService lines 30-33);
\* when it was the last one the Promise.all resolves and singleSync
\* returns responseData (line 124)
SaveOk ==
  /\ pc = "metadata"
  /\ \E c \in awaiting :
        /\ store' = store \cup {c}
        /\ awaiting' = awaiting \ {c}
        /\ IF awaiting \ {c} = {}
           THEN SingleSyncReturns(response.body)
           ELSE UNCHANGED <<pc, i, response, delay, out, lastCause, batchLog>>
  /\ UNCHANGED <<input, caller, conflict, aux, mode, outerTry, innerTry, inFlight, background, saveCalls,
                 batchCalls, batchAllFailed, batchAllOk, okParsed, sent, netMethods, serverWait, timedOut>>

\* mutant of SaveFails: the saves of the other records are dropped with the
\* one that failed
SaveFails_DropsOthers ==
  /\ pc = "metadata"
  /\ awaiting # {}
  /\ awaiting' = {}
  /\ background' = background
  /\ SingleSyncThrows(AppError("Failed to save Apple-specific metadata", 500))
  /\ UNCHANGED <<input, caller, conflict, aux, mode, outerTry, innerTry, inFlight, store, saveCalls,
                 batchCalls, batchAllFailed, batchAllOk, okParsed, sent, netMethods, serverWait, timedOut>>

\* an awaited saveMetadata rejects (AppleMetadataService lines 34-37): the
\* Promise.all rejects, singleSync throws; the other saves go on
SaveFails ==
  /\ pc = "metadata"
  /\ \E c \in awaiting :
        /\ awaiting' = {}
        /\ background' = background \cup (awaiting \ {c})
  /\ SingleSyncThrows(AppError("Failed to save Apple-specific metadata", 500))
  /\ UNCHANGED <<input, caller, conflict, aux, mode, outerTry, innerTry, inFlight, store, saveCalls,
                 batchCalls, batchAllFailed, batchAllOk, okParsed, sent, netMethods, serverWait, timedOut>>

\* a saveMetadata that no one awaits any more resolves
BackgroundSaveOk ==
  /\ \E c \in background :
        /\ background' = background \ {c}
        /\ store' = store \cup {c}
  /\ UNCHANGED <<input, caller, conflict, aux, ctl, out, awaiting, saveCalls, hist>>

\* a saveMetadata that no one awaits any more rejects; the rejection goes
\* to a Promise.all that has already settled
BackgroundSaveFails ==
  /\ \E c \in background : background' = background \ {c}
  /\ UNCHANGED <<input, caller, conflict, aux, ctl, out, awaiting, store, saveCalls, hist>>

Next ==
  \/ Start
  \/ BatchBegin
  \/ BatchReturn
  \/ IssueFetch
  \/ \E b \in Bodies : FetchOk(b)
  \/ \E s \in Statuses : FetchStatus(s)
  \/ FetchReject
  \/ FetchTimeout
  \/ InnerBackoff
  \/ OuterBackoff
  \/ JsonFails
  \/ JsonRead
  \/ SaveOk
  \/ SaveFails
  \/ BackgroundSaveOk
  \/ BackgroundSaveFails

Spec == Init /\ [][Next]_vars

(***************************************************************************)
(* Vocabulary of the properties.                                           *)
(***************************************************************************)
CeilDiv(a, b) == (a + b - 1) \div b

\* number of batches a submission of n records is cut into
NumBatches == CeilDiv(Len(data), BATCH_SIZE)

\* the slice of the b-th batch (b = 1, 2, ...), 0-based, to exclusive
BatchFrom(b) == (b - 1) * BATCH_SIZE
BatchTo(b) == Min(b * BATCH_SIZE, Len(data))

\* a batch (or the one singleSync of a small submission) has just finished
BatchFinished == pc \in {"loop", "done"} /\ Len(batchLog) > 0
LastBatch == batchLog[Len(batchLog)]

Ids(entries) == [k \in 1..Len(entries) |-> entries[k].id]

RECURSIVE FailedIds(_)
\* the ids of the records of the failed batches of a log, in source order
FailedIds(log) ==
  IF log = <<>> THEN <<>>
  ELSE LET e == Head(log) IN
       (IF e.status = "failed"
        THEN [k \in 1..e.size |-> data[e.from + k].id]
        ELSE <<>>) \o FailedIds(Tail(log))

RECURSIVE ExpectedResults(_)
\* the response elements of the succeeded batches of a log, in source order
ExpectedResults(log) ==
  IF log = <<>> THEN <<>>
  ELSE LET e == Head(log) IN
       (IF e.status # "ok" THEN <<>>
        ELSE IF e.body = "array"
        THEN [k \in 1..e.size |-> [batch |-> e.from, idx |-> k]]
        ELSE <<[batch |-> e.from, idx |-> 0]>>) \o ExpectedResults(Tail(log))

RECURSIVE ResultCount(_)
\* how many response elements the succeeded batches of a log returned
ResultCount(log) ==
  IF log = <<>> THEN 0
  ELSE LET e == Head(log) IN
       (IF e.status # "ok" THEN 0 ELSE IF e.body = "array" THEN e.size ELSE 1)
       + ResultCount(Tail(log))

RECURSIVE FailedCount(_)
\* how many records the failed batches of a log hold
FailedCount(log) ==
  IF log = <<>> THEN 0
  ELSE (IF Head(log).status = "failed" THEN Head(log).size ELSE 0)
       + FailedCount(Tail(log))

\* the save call the code owes the record at position k
ExpectedSave(k) ==
  [id |-> data[k].id, bag |-> ConvertToAppleMetadata(data[k].metadata[1])]
Translates(k) == data[k].metadata # <<>> /\ ConvertOk(data[k].metadata[1])

(***************************************************************************)
(* Sanity of the model: types, and the path syncData takes.                *)
(***************************************************************************)
TypeOK ==
  /\ pc \in {"start", "loop", "fetch", "inflight", "backoffInner", "backoffOuter",
             "json", "metadata", "done"}
  /\ mode \in {"single", "batch"}
  /\ outerTry \in 0..(MAX_RETRIES - 1)
  /\ innerTry \in 0..(MAX_RETRIES - 1)
  /\ inFlight \in 0..1
  /\ batchCalls \in 0..CallCap
  /\ outcome \in {"pending", "returned", "rejected"}
  /\ (pc = "done") = (outcome # "pending")
  /\ pc # "start" => (mode = "batch") = (isArray /\ Len(data) > BATCH_SIZE)
  /\ store \subseteq saveCalls
  /\ awaiting \cup background \subseteq saveCalls

(***************************************************************************)
(* Claims.                                                                 *)
(***************************************************************************)

\* C1: in a submission of more than BATCH_SIZE records a batch that fails
\* for good never keeps a later batch from being dispatched: when the call
\* ends it has returned (not rejected), a request went out for every batch
\* of the submission, the results are the response elements of exactly the
\* succeeded batches and the failed batches are in the error list.
C1_FailedBatchDoesNotAbortSiblings ==
  (pc = "done" /\ mode = "batch") =>
     /\ outcome = "returned"
     /\ \A b \in 1..NumBatches :
          \E c \in sent : c.from = BatchFrom(b) /\ c.to = BatchTo(b)
     /\ Len(batchLog) = NumBatches
     /\ results = ExpectedResults(batchLog)
     /\ \A b \in 1..NumBatches :
          batchLog[b].status = "failed" =>
            \E k \in 1..Len(errors) : errors[k].id = data[BatchFrom(b) + 1].id

\* witness of C1: the first batch failed for good, the second one succeeded
C1_Witness ==
  /\ pc = "done" /\ mode = "batch" /\ outcome = "returned"
  /\ batchLog[1].status = "failed"
  /\ batchLog[2].status = "ok"
  /\ results # <<>>

\* C2 (as claimed): when every network call made for a batch failed, the
\* batch (or the small submission) ended after exactly MAX_RETRIES calls.
C2_ExactlyMaxRetriesCalls ==
  (BatchFinished /\ batchAllFailed) => batchCalls = MAX_RETRIES

\* C3: at the end of a submission of more than BATCH_SIZE records the error
\* list holds one entry per record of every failed batch, with the record's
\* id, in source order, and nothing else; 250 records with only the second
\* batch failing give the 100 entries of the ids 100..199.
C3_ErrorEntriesAreTheFailedBatches ==
  (pc = "done" /\ mode = "batch") =>
     /\ Ids(errors) = FailedIds(batchLog)
     /\ (Len(data) = 250 /\ [b \in 1..3 |-> batchLog[b].status] = <<"ok", "failed", "ok">>)
          => Ids(errors) = [k \in 1..100 |-> 99 + k]

\* witness of C3: 250 records, only the second batch failed
C3_Witness ==
  /\ pc = "done" /\ mode = "batch" /\ Len(data) = 250
  /\ [b \in 1..3 |-> batchLog[b].status] = <<"ok", "failed", "ok">>
  /\ Len(errors) = 100

\* C4 (as claimed): the error entries of a failed batch carry the message
\* of the last underlying error of that batch.
C4_EntriesCarryUnderlyingMessage ==
  (BatchFinished /\ mode = "batch" /\ LastBatch.status = "failed") =>
     \A k \in 1..Len(errors) :
        k > Len(errors) - LastBatch.size => errors[k].error = lastCause.message

C7_PartitionAndOneCallPerBatch ==
  /\ \A c \in sent :
        IF mode = "batch"
        THEN \E b \in 1..NumBatches : c.from = BatchFrom(b) /\ c.to = BatchTo(b)
        ELSE c.from = 0 /\ c.to = Len(data)
  /\ (BatchFinished /\ batchAllOk) => batchCalls = 1

\* the partition half of C7 alone
C7_Partition ==
  /\ \A c \in sent :
        /\ c.to - c.from \in 1..BATCH_SIZE
        /\ IF mode = "batch"
           THEN \E b \in 1..NumBatches : c.from = BatchFrom(b) /\ c.to = BatchTo(b)
           ELSE c.from = 0 /\ c.to = Len(data)
  /\ pc = "done" =>
        /\ Len(batchLog) = (IF mode = "batch" THEN NumBatches ELSE 1)
        /\ \A b \in 1..Len(batchLog) :
              /\ batchLog[b].from = (IF b = 1 THEN 0 ELSE batchLog[b - 1].from + batchLog[b - 1].size)
              /\ batchLog[b].size = (IF mode = "batch" THEN BatchTo(b) - BatchFrom(b) ELSE Len(data))
        /\ LastBatch.from + LastBatch.size = Len(data)

C9_MetadataFailureIsLocalAndReported ==
  /\ [](/\ \A k \in okParsed : Translates(k) => ExpectedSave(k) \in saveCalls
        /\ netMethods \subseteq {method}
        /\ pc = "done" =>
              \A k \in okParsed :
                 data[k].metadata # <<>> =>
                    \/ Translates(k) /\ ExpectedSave(k) \in store
                    \/ outcome = "rejected"
                    \/ \E e \in 1..Len(errors) : errors[e].id = data[k].id)
  /\ [][Cardinality((awaiting \cup background)
                      \ (awaiting' \cup background' \cup store')) <= 1]_vars

\* witness of C9: the save of one record failed, the call ended with a
\* failure, and the metadata of another record is in the store
C9_Witness ==
  /\ pc = "done" /\ outcome = "rejected"
  /\ \E k \in okParsed :
        /\ Translates(k)
        /\ ExpectedSave(k) \notin store \cup awaiting \cup background
        /\ \E d \in store : d.id # data[k].id

\* C10 (as claimed): when the endpoint answered with a non-success status,
\* the failure syncData rejects with carries that status.
C10_FailureCarriesResponseStatus ==
  (pc = "done" /\ outcome = "rejected" /\ lastCause.status \in Statuses) =>
     rejection.status = lastCause.status

\* the retries retryOperation still owes the running singleSync are used up
BudgetExhausted ==
  IF mode = "single" THEN LastAttempt(innerTry) ELSE LastAttempt(outerTry)

\* C11 (as claimed): after a 429 response that carries a Retry-After the
\* call is retried (it does not end while attempts are left), and the wait
\* before that retry is the server-supplied duration; a wait that follows
\* any other failure is the computed backoff.
C11_RetryAfterOverridesBackoff ==
  /\ (pc \in {"loop", "done"} /\ serverWait > 0) => BudgetExhausted
  /\ (pc = "backoffOuter" /\ serverWait > 0) => delay = serverWait
  /\ (pc = "backoffOuter" /\ serverWait = 0) => delay = Backoff(outerTry)
  /\ pc = "backoffInner" => delay = Backoff(innerTry)

\* C12 (as claimed): no retry is scheduled after a response of the
\* authentication class (401/403) or of the conflict class (409), and the
\* failure is surfaced: the call rejects or the records of the batch are in
\* the error list.
C12_AuthAndConflictNeverRetried ==
  /\ pc \in {"backoffInner", "backoffOuter"} => lastCause.status \notin {401, 403, 409}
  /\ (BatchFinished /\ lastCause.status \in {401, 403, 409}) =>
        \/ outcome = "rejected"
        \/ \E e \in 1..Len(errors) : errors[e].id = data[LastBatch.from + 1].id

(***************************************************************************)
(* Submissions outside the declared type of syncData: a collection with a *)
(* null entry (README.md, test "should handle invalid data in batch") and *)
(* the pull the routers issue, syncData(endpoint, null, "GET")            *)
(* (iCloudService.ts lines 66-70).                                         *)
(***************************************************************************)
\* n entries, null at the positions z, metadata (a bag that translates) at
\* the positions m
EntriesWithNull(n, z, m) ==
  [k \in 1..n |->
     IF k \in z THEN NullEntry
     ELSE [id |-> k - 1, metadata |-> IF k \in m THEN Some(GoodMeta(k)) ELSE None]]

\* the collections: 2 or BATCH_SIZE + 1 entries, at most one of them null
\* (the first or the last one), the first one possibly with metadata
NullCollections ==
  { EntriesWithNull(n, z, m) :
      n \in {2, BATCH_SIZE + 1}, z \in {{}, {1}, {2}, {BATCH_SIZE + 1}}, m \in {{}, {1}} }

InitInvalid ==
  /\ \/ /\ isArray = TRUE
        /\ data \in NullCollections
        /\ method = "POST"
     \/ /\ isArray = FALSE
        /\ data = <<NullEntry>>
        /\ method = "GET"
     \/ /\ isArray = FALSE
        /\ data \in { EntriesWithNull(1, {}, m) : m \in {{}, {1}} }
        /\ method \in Methods
  /\ SyncStart
  /\ CallerIdle
  /\ ConflictIdle
  /\ AuxIdle

SpecInvalid == InitInvalid /\ [][Next]_vars

HasNull == \E k \in 1..Len(data) : IsNull(data[k])
NoMetadata == \A k \in 1..Len(data) : ~HasMetadata(k)

\* C13 (as claimed): a collection with a null entry does not make syncData
\* reject: the call returns, the null entry is one entry of the error list
\* with a validation-specific error, and every record of the collection
\* went out with a network call.
C13_NullEntryIsOneValidationFailure ==
  (pc = "done" /\ isArray /\ HasNull) =>
     /\ outcome = "returned"
     /\ \E e \in 1..Len(errors) : errors[e].error = "Invalid data"
     /\ \A k \in 1..Len(data) :
          ~IsNull(data[k]) => \E c \in sent : c.from < k /\ k <= c.to

\* C14 (as claimed): when every network call was answered with success, a
\* call for a single record, for a list of at most BATCH_SIZE records or
\* for a pull (data null, method GET) has made exactly one network call and
\* returned the response as its results, with no errors.  Records with
\* metadata are left out: what the metadata step adds is not this claim.
C14_HealthyEndpointOneCallNoFailure ==
  ( /\ pc = "done" /\ mode = "single" /\ batchAllOk /\ NoMetadata
    /\ (isArray => ~HasNull)
    /\ (HasNull => method = "GET") ) =>
     /\ outcome = "returned"
     /\ batchCalls = 1
     /\ errors = <<>>
     /\ results = ExpectedResults(batchLog)
     /\ Len(results) >= 1

(***************************************************************************)
(* Conflict Resolution Service (services/ConflictResolutionService.ts).   *)
(*                                                                         *)
(* Records are objects on a heap: heap[a] is the object at address a, a   *)
(* function from its keys to values.  A value is undefined, null, a       *)
(* number, a string, an array of numbers or the address of an object, so  *)
(* that two fields can hold the same object and an object can be reached  *)
(* from itself.  Keys are enumerated in the order of KeyOrder.            *)
(***************************************************************************)
Undef   == [t |-> "undef", n |-> 0, s |-> "", a |-> 0, arr |-> <<>>]
JsNull  == [t |-> "null",  n |-> 0, s |-> "", a |-> 0, arr |-> <<>>]
Num(n)  == [t |-> "num",   n |-> n, s |-> "", a |-> 0, arr |-> <<>>]
Str(s)  == [t |-> "str",   n |-> 0, s |-> s,  a |-> 0, arr |-> <<>>]
Ref(a)  == [t |-> "ref",   n |-> 0, s |-> "", a |-> a, arr |-> <<>>]
Arr(q)  == [t |-> "arr",   n |-> 0, s |-> "", a |-> 0, arr |-> q]

KeyOrder == <<"a", "b", "modificationDate">>

\* Object.keys(o)
ObjectKeys(o) == SelectSeq(KeyOrder, LAMBDA k : k \in DOMAIN o)
\* o[k]
Get(o, k) == IF k \in DOMAIN o THEN o[k] ELSE Undef
\* o[k] = v
Put(o, k, v) == [x \in DOMAIN o \cup {k} |-> IF x = k THEN v ELSE o[x]]

\* isObject (lines 107-109)
isObject(item) == item.t = "ref"

RECURSIVE Dedup(_, _)
\* Array.from(new Set(q)): the first occurrence of every element, in order
Dedup(q, have) ==
  IF q = <<>> THEN <<>>
  ELSE IF Head(q) \in have THEN Dedup(Tail(q), have)
  ELSE <<Head(q)>> \o Dedup(Tail(q), have \cup {Head(q)})

\* { ...target } (line 40): the own fields of an object, the elements of an
\* array under their indices, nothing for undefined, null and numbers
Spread(h, target) ==
  CASE target.t = "ref" -> h[target.a]
    [] target.t = "arr" -> [k \in { ToString(x - 1) : x \in 1..Len(target.arr) } |->
                              Num(target.arr[CHOOSE x \in 1..Len(target.arr) : ToString(x - 1) = k])]
    [] target.t \in {"undef", "null", "num"} -> <<>>

\* [...v] (line 46) is defined for arrays (and strings), a TypeError for
\* every other value
Iterable(v) == v.t = "arr"

RECURSIVE deepMerge(_, _, _, _), MergeKeys(_, _, _, _, _)
\* a deepMerge that keeps its map by target: an object of the local record
\* is merged once per cloud object it meets
deepMerge_SeenByTarget(h, seen, target, source) ==
  IF target.t = "ref" /\ target.a \in DOMAIN seen
  THEN [heap |-> h, seen |-> seen, threw |-> FALSE, out |-> seen[target.a]]
  ELSE LET output == Len(h) + 1
           keyed == IF target.t = "ref" THEN {target.a} ELSE {}
           st == [heap |-> Append(h, Spread(h, target)),
                  seen |-> [x \in DOMAIN seen \cup keyed |->
                              IF x \in keyed THEN output ELSE seen[x]],
                  threw |-> FALSE,
                  out |-> output]
       IN IF isObject(target) /\ isObject(source)
          THEN MergeKeys(st, target, source, output, ObjectKeys(h[source.a]))
          ELSE st

\* a deepMerge that writes the keys of the source into the target itself
\* instead of into a copy
deepMerge_InPlace(h, seen, target, source) ==
  IF source.a \in DOMAIN seen
  THEN [heap |-> h, seen |-> seen, threw |-> FALSE, out |-> seen[source.a]]
  ELSE LET output == IF isObject(target) THEN target.a ELSE Len(h) + 1
           st == [heap |-> IF isObject(target) THEN h ELSE Append(h, Spread(h, target)),
                  seen |-> [x \in DOMAIN seen \cup {source.a} |->
                              IF x = source.a THEN output ELSE seen[x]],
                  threw |-> FALSE,
                  out |-> output]
       IN IF isObject(target) /\ isObject(source)
          THEN MergeKeys(st, target, source, output, ObjectKeys(h[source.a]))
          ELSE st

\* MergeStrategy.deepMerge (lines 35-59) on the heap h with the map seen
\* (source address -> output address).  The answer holds the new heap and
\* map, the address of the output and whether a TypeError was thrown.
deepMerge(h, seen, target, source) ==
  IF source.a \in DOMAIN seen
  THEN [heap |-> h, seen |-> seen, threw |-> FALSE, out |-> seen[source.a]]
  ELSE LET output == Len(h) + 1
           st == [heap |-> Append(h, Spread(h, target)),
                  seen |-> [x \in DOMAIN seen \cup {source.a} |->
                              IF x = source.a THEN output ELSE seen[x]],
                  threw |-> FALSE,
                  out |-> output]
       IN IF isObject(target) /\ isObject(source)
          THEN MergeKeys(st, target, source, output, ObjectKeys(h[source.a]))
          ELSE st

\* the forEach of deepMerge (lines 44-56) over the keys still to visit
MergeKeys(st, target, source, output, keys) ==
  IF keys = <<>> \/ st.threw THEN st
  ELSE LET key == Head(keys)
           sv  == st.heap[source.a][key]
           tgt == st.heap[target.a]
           set(t, v) == [t EXCEPT !.heap[output] = Put(t.heap[output], key, v)]
       IN IF sv.t = "arr"
          THEN IF Iterable(Get(tgt, key))
               THEN MergeKeys(set(st, Arr(Dedup(Get(tgt, key).arr \o sv.arr, {}))),
                              target, source, output, Tail(keys))
               ELSE [st EXCEPT !.threw = TRUE]
          ELSE IF isObject(sv)
          THEN IF key \notin DOMAIN tgt
               THEN MergeKeys(set(st, sv), target, source, output, Tail(keys))
               ELSE LET r == deepMerge(st.heap, st.seen, tgt[key], sv) IN
                    IF r.threw THEN r
                    ELSE MergeKeys(set([r EXCEPT !.out = output], Ref(r.out)),
                                   target, source, output, Tail(keys))
          ELSE MergeKeys(set(st, sv), target, source, output, Tail(keys))

\* the texts a modificationDate may hold and the instant new Date(text)
\* stands for, in hours; NaN for a text that is no date
NaN == -1
DateTexts == {"", "invalid-date", "2023-07-03T12:00:00Z", "2023-07-03T13:00:00Z",
              "2023-07-03T15:00:00+02:00"}
GetTime(text) ==
  CASE text = "2023-07-03T12:00:00Z" -> 12
    [] text = "2023-07-03T13:00:00Z" -> 13
    [] text = "2023-07-03T15:00:00+02:00" -> 13
    [] OTHER -> NaN
isNaN(x) == x = NaN

\* new Date(record.modificationDate || '') (lines 15-16)
DateOf(o) == GetTime(IF Get(o, "modificationDate").t = "str"
                     THEN Get(o, "modificationDate").s ELSE "")

\* mutant of LastWriteWins: a tie goes to the cloud record
LastWriteWins_TieToCloud(h, l, c) ==
  LET localDate == DateOf(h[l])
      cloudDate == DateOf(h[c])
  IN IF isNaN(localDate) /\ isNaN(cloudDate) THEN l
     ELSE IF isNaN(localDate) THEN c
     ELSE IF isNaN(cloudDate) THEN l
     ELSE IF localDate > cloudDate THEN l ELSE c

\* LastWriteWinsStrategy.resolve (lines 14-27): the address of the record
\* it returns
LastWriteWins(h, l, c) ==
  LET localDate == DateOf(h[l])
      cloudDate == DateOf(h[c])
  IN IF isNaN(localDate) /\ isNaN(cloudDate) THEN l
     ELSE IF isNaN(localDate) THEN c
     ELSE IF isNaN(cloudDate) THEN l
     ELSE IF localDate >= cloudDate THEN l ELSE c

RECURSIVE Stringify(_, _, _), StringifyFields(_, _, _, _), StringifyElems(_)
StringifyElems(q) ==
  IF q = <<>> THEN <<>>
  ELSE <<ToString(Head(q))>> \o (IF Len(q) > 1 THEN <<",">> ELSE <<>>) \o StringifyElems(Tail(q))

\* JSON.stringify(v) as a list of tokens; ok is FALSE when it throws
\* (a circular structure).  stack holds the objects being serialised.
Stringify(h, v, stack) ==
  CASE v.t = "null" -> [ok |-> TRUE, toks |-> <<"null">>]
    [] v.t = "num"  -> [ok |-> TRUE, toks |-> <<ToString(v.n)>>]
    [] v.t = "str"  -> [ok |-> TRUE, toks |-> <<"\"" \o v.s \o "\"">>]
    [] v.t = "arr"  -> [ok |-> TRUE, toks |-> <<"[">> \o StringifyElems(v.arr) \o <<"]">>]
    [] v.t = "ref"  ->
         IF v.a \in stack THEN [ok |-> FALSE, toks |-> <<>>]
         ELSE LET keys == SelectSeq(ObjectKeys(h[v.a]), LAMBDA k : h[v.a][k].t # "undef")
                  r == StringifyFields(h, v.a, keys, stack \cup {v.a})
              IN [ok |-> r.ok, toks |-> <<"{">> \o r.toks \o <<"}">>]

StringifyFields(h, a, keys, stack) ==
  IF keys = <<>> THEN [ok |-> TRUE, toks |-> <<>>]
  ELSE LET r == Stringify(h, h[a][Head(keys)], stack)
           rest == StringifyFields(h, a, Tail(keys), stack)
       IN [ok |-> r.ok /\ rest.ok,
           toks |-> <<"\"" \o Head(keys) \o "\"", ":">> \o r.toks
                    \o (IF Len(keys) > 1 THEN <<",">> ELSE <<>>) \o rest.toks]

\* JSON.stringify({ localData, cloudData }) (line 64)
ManualPayload(h, l, c) ==
  LET sl == Stringify(h, Ref(l), {})
      sc == Stringify(h, Ref(c), {})
  IN [ok |-> sl.ok /\ sc.ok,
      toks |-> <<"{", "\"localData\"", ":">> \o sl.toks
               \o <<",", "\"cloudData\"", ":">> \o sc.toks \o <<"}">>]

\* the strategyName argument left out by the caller
Omitted == "undefined"

\* the names a caller passes as strategyName
StrategyNames == {"lastWriteWins", "merge", "manual", "invalidStrategy", Omitted}

\* the keys of the strategies map (lines 75-77)
Strategies == {"lastWriteWins", "merge", "manual"}

\* mutant of DefaultStrategy: the default is the merge strategy
DefaultStrategy_Merge(name) == IF name = Omitted THEN "merge" ELSE name

\* the default value of the parameter strategyName (line 83)
DefaultStrategy(name) == IF name = Omitted THEN "lastWriteWins" ELSE name

Resolution(kind, addr, error, payload, h, ran, raised) ==
  [kind |-> kind, addr |-> addr, error |-> error, payload |-> payload, heap |-> h,
   ran |-> ran, raised |-> raised]

\* strategy.resolve(localData, cloudData) (lines 14-27, 31-33, 63-67) of the
\* strategy called name: the value it returns or the error it throws, and
\* the heap afterwards
StrategyResolve(h, l, c, name) ==
  CASE name = "lastWriteWins" ->
         [kind |-> "value", addr |-> LastWriteWins(h, l, c), error |-> NoError,
          payload |-> <<>>, heap |-> h]
    [] name = "merge" ->
         LET r == deepMerge(h, <<>>, Ref(c), Ref(l)) IN
         IF r.threw
         THEN [kind |-> "error", addr |-> 0,
               error |-> Err("TypeError", "target[key] is not iterable", 0),
               payload |-> <<>>, heap |-> r.heap]
         ELSE [kind |-> "value", addr |-> r.out, error |-> NoError,
               payload |-> <<>>, heap |-> r.heap]
    [] name = "manual" ->
         LET m == ManualPayload(h, l, c) IN
         IF m.ok
         THEN [kind |-> "error", addr |-> 0,
               error |-> AppError("Manual resolution required: ", 409),
               payload |-> m.toks, heap |-> h]
         ELSE [kind |-> "error", addr |-> 0,
               error |-> Err("TypeError", "Converting circular structure to JSON", 0),
               payload |-> <<>>, heap |-> h]

\* error instanceof AppError (line 95)
IsAppError(e) == e.name = "AppError"

\* ConflictResolutionService.resolveConflict (lines 80-104): the value
\* returned or the error thrown, the heap afterwards, the strategy whose
\* resolve ran and the error that strategy raised
resolveConflict(h, l, c, name) ==
  LET key == DefaultStrategy(name) IN
  IF key \notin Strategies
  THEN Resolution("error", 0, AppError("Invalid conflict resolution strategy", 400),
                  <<>>, h, "none", NoError)
  ELSE LET r == StrategyResolve(h, l, c, key) IN
       IF r.kind = "value"
       THEN Resolution("value", r.addr, NoError, <<>>, r.heap, key, NoError)
       ELSE IF IsAppError(r.error)
       THEN Resolution("error", 0, r.error, r.payload, r.heap, key, r.error)
       ELSE Resolution("error", 0, AppError("Failed to resolve conflict", 500),
                       <<>>, r.heap, key, r.error)

(***************************************************************************)
(* The pairs of records the service is called with.  The local record is  *)
(* at address 1, the cloud record at address 2; each may hold one nested  *)
(* object (addresses 3 and 4), the cloud record a second one (address 5). *)
(***************************************************************************)
Absent == [t |-> "absent", n |-> 0, s |-> "", a |-> 0, arr |-> <<>>]

\* the object with the fields a, b and modificationDate that are not Absent
MkObj(av, bv, dv) ==
  LET f == [k \in {"a", "b", "modificationDate"} |->
              IF k = "a" THEN av ELSE IF k = "b" THEN bv ELSE dv]
  IN [k \in { x \in DOMAIN f : f[x] # Absent } |-> f[k]]

Numbers == { Num(n) : n \in 1..MaxValue }
Arrays == { Arr(q) : q \in {<<>>} \cup { <<x>> : x \in 1..MaxValue }
                          \cup { <<x, y>> : x \in 1..MaxValue, y \in 1..MaxValue } }

\* a record <<root, nested, second nested>>; the nested object is empty
\* when the root does not refer to it
WithNested(roots, nesteds, child) ==
  UNION { { <<r, n, <<>>>> : n \in IF \E k \in DOMAIN r : r[k] = Ref(child)
                                THEN nesteds ELSE {<<>>} } : r \in roots }

\* scalars and nested objects, no array, no object reachable twice
NestedRecords(child) ==
  WithNested({ MkObj(av, bv, Absent) :
                 av \in {Absent, Undef, JsNull, Ref(child)} \cup Numbers,
                 bv \in {Absent, Num(1)} },
             { MkObj(av, bv, Absent) : av \in {Absent} \cup Numbers, bv \in {Absent, Num(1)} },
             child)

\* arrays, at the top or inside the nested object
ArrayRecords(child) ==
  WithNested({ MkObj(av, Absent, Absent) : av \in {Absent, Num(1), Ref(child)} \cup Arrays },
             { MkObj(av, Absent, Absent) : av \in Arrays },
             child)

\* object graphs: a field may hold the record itself or the nested object,
\* the nested object the record or itself
GraphRecords(root, child) ==
  WithNested({ MkObj(av, bv, Absent) :
                 av \in {Absent, Num(1), Ref(root), Ref(child)},
                 bv \in {Absent, Num(1), Ref(root), Ref(child)} },
             { MkObj(av, Absent, Absent) : av \in {Absent, Num(1), Ref(root), Ref(child)} },
             child)

\* records with a modificationDate
DatedRecords(n) ==
  { <<MkObj(Num(n), Absent, dv), <<>>, <<>>>> : dv \in {Absent} \cup { Str(d) : d \in DateTexts } }

\* a local record that holds one nested object under both keys
SharingLocal ==
  { <<MkObj(Ref(3), Ref(3), Absent), MkObj(av, Absent, Absent), <<>>>> :
      av \in {Absent} \cup Numbers }
\* a cloud record that holds a nested object of its own under each key
TwoNestedCloud ==
  { <<MkObj(Ref(4), Ref(5), Absent), MkObj(av, Absent, Absent), MkObj(Absent, bv, Absent)>> :
      av \in {Absent} \cup Numbers, bv \in {Absent, Num(1)} }

\* the heap of a local and a cloud record
HeapOf(l, c) == <<l[1], c[1], l[2], c[2], c[3]>>
InputAddrs == 1..5

ConflictInputs ==
       { HeapOf(l, c) : l \in NestedRecords(3), c \in NestedRecords(4) }
  \cup { HeapOf(l, c) : l \in ArrayRecords(3), c \in ArrayRecords(4) }
  \cup { HeapOf(l, c) : l \in GraphRecords(1, 3), c \in GraphRecords(2, 4) }
  \cup { HeapOf(l, c) : l \in DatedRecords(1), c \in DatedRecords(2) }
  \cup { HeapOf(l, c) : l \in SharingLocal, c \in TwoNestedCloud }

\* no call of syncData is part of the behaviour
NoSubmission ==
  /\ data = <<>>
  /\ isArray = FALSE
  /\ method = "POST"
  /\ SyncStart

InitResolve ==
  /\ heap \in ConflictInputs
  /\ localData = 1
  /\ cloudData = 2
  /\ strategyName \in StrategyNames
  /\ resolved = NotResolved
  /\ NoSubmission
  /\ AuxIdle
  /\ op = "none"
  /\ opPc = "call"
  /\ opTry = 0
  /\ opOutcome = "pending"
  /\ opError = NoError
  /\ NoTally

\* one call of ConflictResolutionService.resolveConflict (lines 80-104)
Resolve ==
  /\ resolved = NotResolved
  /\ LET r == resolveConflict(heap, localData, cloudData, strategyName) IN
       /\ resolved' = [kind |-> r.kind, addr |-> r.addr, error |-> r.error, payload |-> r.payload,
                      ran |-> r.ran, raised |-> r.raised]
       /\ heap' = r.heap
  /\ UNCHANGED <<input, ctl, out, meta, hist, caller, strategyName, localData, cloudData, aux>>

NextResolve == Resolve

SpecResolve == InitResolve /\ [][NextResolve]_vars

(***************************************************************************)
(* Vocabulary of the claims on conflict resolution.                        *)
(***************************************************************************)
Answered == resolved # NotResolved
LocalRecord == heap[localData]
CloudRecord == heap[cloudData]

\* the modificationDate of a record is a text that denotes an instant
ValidDateTexts == {"2023-07-03T12:00:00Z", "2023-07-03T13:00:00Z", "2023-07-03T15:00:00+02:00"}
DateParses(o) ==
  /\ "modificationDate" \in DOMAIN o
  /\ o["modificationDate"].t = "str"
  /\ o["modificationDate"].s \in ValidDateTexts
\* the instant (hour of 2023-07-03, UTC) of a date that parses
Instant(o) ==
  LET d == o["modificationDate"].s IN
  IF d = "2023-07-03T12:00:00Z" THEN 12 ELSE 13

RECURSIVE HasCycle(_, _, _)
\* the object at address a reaches an object of stack, or itself
HasCycle(h, a, stack) ==
  \/ a \in stack
  \/ \E k \in DOMAIN h[a] :
        h[a][k].t = "ref" /\ HasCycle(h, h[a][k].a, stack \cup {a})

RECURSIVE Reachable(_, _, _)
\* the addresses of the objects reachable from the object at address a
Reachable(h, a, seenAddrs) ==
  IF a \in seenAddrs THEN seenAddrs
  ELSE LET kids == { h[a][k].a : k \in { x \in DOMAIN h[a] : h[a][x].t = "ref" } }
           Visit[todo \in SUBSET kids] ==
             IF todo = {} THEN seenAddrs \cup {a}
             ELSE LET c == CHOOSE x \in todo : TRUE
                  IN Reachable(h, c, Visit[todo \ {c}])
       IN Visit[kids]

HoldsArray(h, a) ==
  \E x \in Reachable(h, a, {}) : \E k \in DOMAIN h[x] : h[x][k].t = "arr"

\* some object is reachable from the record at address a along two paths
HoldsShared(h, a) ==
  \E x \in Reachable(h, a, {}) :
     Cardinality({ <<y, k>> \in Reachable(h, a, {}) \X {"a", "b"} :
                     k \in DOMAIN h[y] /\ h[y][k] = Ref(x) }) > 1

RECURSIVE DeepEq(_, _, _)
\* the values v and w are equal as toEqual of the tests compares them
DeepEq(h, v, w) ==
  IF v.t = "ref" /\ w.t = "ref"
  THEN /\ DOMAIN h[v.a] = DOMAIN h[w.a]
       /\ \A k \in DOMAIN h[v.a] : DeepEq(h, h[v.a][k], h[w.a][k])
  ELSE v = w

Scalar(v) == v.t \in {"undef", "null", "num", "str"}

RECURSIVE MergedAs(_, _, _, _)
\* the object at address o is the merge of the local object at l and the
\* cloud object at c: the keys of both; a key of one side with that side's
\* value; the local scalar where both hold a scalar; the merge of the two
\* nested objects where both hold an object
MergedAs(h, o, l, c) ==
  /\ DOMAIN h[o] = DOMAIN h[l] \cup DOMAIN h[c]
  /\ \A k \in DOMAIN h[o] :
        IF k \notin DOMAIN h[c] THEN DeepEq(h, h[o][k], h[l][k])
        ELSE IF k \notin DOMAIN h[l] THEN DeepEq(h, h[o][k], h[c][k])
        ELSE IF h[l][k].t = "ref" /\ h[c][k].t = "ref"
        THEN h[o][k].t = "ref" /\ MergedAs(h, h[o][k].a, h[l][k].a, h[c][k].a)
        ELSE IF Scalar(h[l][k]) /\ Scalar(h[c][k]) THEN h[o][k] = h[l][k]
        ELSE TRUE

AcyclicInputs == ~HasCycle(heap, localData, {}) /\ ~HasCycle(heap, cloudData, {})
NoArrayInputs == ~HoldsArray(heap, localData) /\ ~HoldsArray(heap, cloudData)

\* C17 (as claimed): the merge of two acyclic records without array fields
\* is a record with the keys of both, a one-sided key with that side's
\* value, the local scalar where both hold a scalar (null included) and,
\* at every depth, the merge of the nested objects where both hold one.
C17_MergeIsDeepUnionLocalWins ==
  (Answered /\ strategyName = "merge" /\ AcyclicInputs /\ NoArrayInputs) =>
     /\ resolved.kind = "value"
     /\ MergedAs(heap, resolved.addr, localData, cloudData)

\* C17, for records in which no object is reachable along two paths: the
\* merge is as claimed.
C17_MergeOfTrees ==
  ( /\ Answered /\ strategyName = "merge" /\ AcyclicInputs /\ NoArrayInputs
    /\ ~HoldsShared(heap, localData) ) =>
     /\ resolved.kind = "value"
     /\ MergedAs(heap, resolved.addr, localData, cloudData)

\* the duplicate-free union of two arrays, local elements first
LocalFirstUnion(l, c) == Dedup(l \o c, {})

\* the object at o holds, under every key where the objects at l and c both
\* hold an array, the local-first union of the two
ArraysMergedLocalFirst(h, o, l, c) ==
  \A k \in DOMAIN h[l] \cap DOMAIN h[c] :
     (h[l][k].t = "arr" /\ h[c][k].t = "arr") =>
        /\ k \in DOMAIN h[o]
        /\ h[o][k] = Arr(LocalFirstUnion(h[l][k].arr, h[c][k].arr))

\* C18 (as claimed): where both records hold an array under the same key,
\* the merged record holds the duplicate-free union with the local elements
\* first, in their order, followed by the cloud elements that the local
\* array does not hold; the same inside nested objects.
C18_ArraysUnionLocalFirst ==
  (Answered /\ strategyName = "merge" /\ AcyclicInputs) =>
     /\ (\E k \in DOMAIN LocalRecord \cap DOMAIN CloudRecord :
            LocalRecord[k].t = "arr" /\ CloudRecord[k].t = "arr") =>
           /\ resolved.kind = "value"
           /\ ArraysMergedLocalFirst(heap, resolved.addr, localData, cloudData)
     /\ \A k \in DOMAIN LocalRecord \cap DOMAIN CloudRecord :
           ( /\ LocalRecord[k].t = "ref" /\ CloudRecord[k].t = "ref"
             /\ \E j \in DOMAIN heap[LocalRecord[k].a] \cap DOMAIN heap[CloudRecord[k].a] :
                   /\ heap[LocalRecord[k].a][j].t = "arr"
                   /\ heap[CloudRecord[k].a][j].t = "arr" ) =>
              /\ resolved.kind = "value"
              /\ heap[resolved.addr][k].t = "ref"
              /\ ArraysMergedLocalFirst(heap, heap[resolved.addr][k].a,
                                        LocalRecord[k].a, CloudRecord[k].a)

\* C19 (as claimed): merge fails for every pair in which the local or the
\* cloud record reaches itself; it returns no merged value for such a pair.
C19_MergeRejectsCycles ==
  (Answered /\ strategyName = "merge" /\ ~AcyclicInputs) => resolved.kind = "error"

\* the list of tokens q holds the list sub as a contiguous part
Contains(q, sub) ==
  \E at \in 1..(Len(q) - Len(sub) + 1) : SubSeq(q, at, at + Len(sub) - 1) = sub

\* the answer is the "manual resolution required" signal with both records
ManualSignal ==
  /\ resolved.kind = "error"
  /\ resolved.error = AppError("Manual resolution required: ", 409)
  /\ Stringify(heap, Ref(localData), {}).ok
  /\ Stringify(heap, Ref(cloudData), {}).ok
  /\ Contains(resolved.payload, Stringify(heap, Ref(localData), {}).toks)
  /\ Contains(resolved.payload, Stringify(heap, Ref(cloudData), {}).toks)

\* C20 (as claimed): for every pair of records the manual strategy returns
\* no value and fails with the "manual resolution required" signal, status
\* 409, whose message holds the serialization of both records.
C20_ManualAlwaysSignals ==
  (Answered /\ strategyName = "manual") => ManualSignal

\* C20, for records that JSON.stringify can serialise (no record reaches
\* itself): the signal is raised as claimed; for every pair no value is
\* returned.
C20_ManualOnSerializable ==
  (Answered /\ strategyName = "manual") =>
     /\ resolved.kind = "error"
     /\ AcyclicInputs => ManualSignal

\* the rule of last-write-wins on the two records of the call
LocalIsLatest ==
  \/ /\ DateParses(LocalRecord)
     /\ \/ ~DateParses(CloudRecord)
        \/ ~(Instant(CloudRecord) > Instant(LocalRecord))
  \/ ~DateParses(LocalRecord) /\ ~DateParses(CloudRecord)

\* C21: a strategy name that is none of lastWriteWins, merge, manual fails
\* with the input error (status 400) and no strategy runs; with the name left
\* out last-write-wins runs; an AppError raised by a strategy is the error
\* of the call, any other error raised by a strategy is replaced by
\* 'Failed to resolve conflict' (status 500).
C21_UnknownDefaultAndWrapping ==
  Answered =>
     /\ (strategyName \notin Strategies \cup {Omitted}) =>
           /\ resolved.kind = "error"
           /\ resolved.error = AppError("Invalid conflict resolution strategy", 400)
           /\ resolved.ran = "none"
           /\ resolved.raised = NoError
           /\ Len(heap) = Cardinality(InputAddrs)
     /\ (strategyName = Omitted) =>
           /\ resolved.ran = "lastWriteWins"
           /\ resolved.kind = "value"
           /\ (resolved.addr = localData) <=> LocalIsLatest
           /\ (resolved.addr = cloudData) <=> ~LocalIsLatest
     /\ (strategyName \in Strategies) => resolved.ran = strategyName
     /\ IsAppError(resolved.raised) =>
           /\ resolved.kind = "error"
           /\ resolved.error = resolved.raised
     /\ (resolved.raised # NoError /\ ~IsAppError(resolved.raised)) =>
           /\ resolved.kind = "error"
           /\ resolved.error = AppError("Failed to resolve conflict", 500)

\* witness of C21: the strategy was left out and the cloud record, the later
\* one, was returned
C21_Witness ==
  /\ Answered /\ strategyName = Omitted
  /\ DateParses(LocalRecord) /\ DateParses(CloudRecord)
  /\ Instant(CloudRecord) > Instant(LocalRecord)
  /\ resolved.ran = "lastWriteWins"
  /\ resolved.addr = cloudData

\* a strategy raised an error that is no AppError and the call failed with
\* the generic error
C21_WrappedWitness ==
  /\ Answered /\ strategyName = "merge"
  /\ resolved.raised.name = "TypeError"
  /\ resolved.error = AppError("Failed to resolve conflict", 500)

(***************************************************************************)
(* The public operations of the Dispatcher (DataSynchronizer.ts lines     *)
(* 42-55 and 148-229).  syncLivePhoto, downloadAndConvertLivePhoto,       *)
(* resolveConflict and syncFile run their body inside retryOperation; the *)
(* first two call syncData for one record.  The collaborators (the Live   *)
(* Photo converter, the WebDAV client) answer or throw.                    *)
(***************************************************************************)
Ops == {"syncData", "syncLivePhoto", "downloadAndConvertLivePhoto", "resolveConflict", "syncFile"}

\* the message of the AppError the catch of an operation throws
\* (lines 165, 189, 210, 225)
OpErrorOf(o) ==
  CASE o = "syncLivePhoto" -> AppError("Failed to sync Live Photo", 500)
    [] o = "downloadAndConvertLivePhoto" -> AppError("Failed to download and convert Live Photo", 500)
    [] o = "resolveConflict" -> AppError("Failed to resolve conflict", 500)
    [] o = "syncFile" -> AppError("Failed to sync file", 500)

\* the submissions of a direct call: two records, or BATCH_SIZE + 1 records
\* of which the last may carry metadata
CallSubmissions ==
  { sp \in Submissions :
      \/ sp[1] = 2
      \/ sp[1] = BATCH_SIZE + 1 /\ \A k \in 2..MaxMeta : sp[2][k] = "none" }

\* the conflicts handed to DataSynchronizer.resolveConflict
CallConflictInputs ==
       { HeapOf(l, c) : l \in DatedRecords(1), c \in DatedRecords(2) }
  \cup { HeapOf(<<MkObj(Ref(3), Ref(3), Absent), MkObj(Num(1), Absent, Absent), <<>>>>,
                <<MkObj(Ref(4), Ref(5), Absent), MkObj(Num(2), Absent, Absent),
                  MkObj(Absent, Num(1), Absent)>>) }

InitCalls ==
  /\ op \in Ops
  /\ opPc = (IF op = "syncData" THEN "sync" ELSE "call")
  /\ opTry = 0
  /\ opOutcome = "pending"
  /\ opError = NoError
  /\ NoTally
  /\ IF op = "syncData"
     THEN /\ \E sp \in CallSubmissions :
                data = [k \in 1..sp[1] |-> Record(k, sp[2], sp[1])]
          /\ isArray = TRUE
          /\ method = "POST"
          /\ SyncStart
     ELSE /\ data = <<>>
          /\ isArray = FALSE
          /\ method = "POST"
          /\ pc = "idle"
          /\ SyncFresh
  /\ IF op = "resolveConflict"
     THEN /\ heap \in CallConflictInputs
          /\ localData = 1
          /\ cloudData = 2
          /\ strategyName \in StrategyNames
          /\ resolved = NotResolved
     ELSE ConflictIdle
  /\ AuxIdle

\* the operation calls syncData(endpoint, record, m) for one record
\* (lines 156-160, 174-178)
CallsSyncData(m) ==
  /\ data' = <<[id |-> 0, metadata |-> None]>>
  /\ isArray' = FALSE
  /\ method' = m
  /\ pc' = "start"
  /\ mode' = "single"
  /\ i' = 0
  /\ outerTry' = 0
  /\ innerTry' = 0
  /\ inFlight' = 0
  /\ response' = NoResponse
  /\ delay' = 0
  /\ results' = <<>>
  /\ errors' = <<>>
  /\ outcome' = "pending"
  /\ rejection' = NoError
  /\ batchCalls' = 0
  /\ batchAllFailed' = TRUE
  /\ batchAllOk' = TRUE
  /\ lastCause' = NoError
  /\ batchLog' = <<>>
  /\ okParsed' = {}
  /\ sent' = {}
  /\ netMethods' = {}
  /\ serverWait' = 0
  /\ timedOut' = FALSE
  /\ UNCHANGED meta

\* the operation resolves (line 137 returns)
OpReturns ==
  /\ opPc' = "done"
  /\ opOutcome' = "returned"
  /\ UNCHANGED <<op, opTry, opError>>

\* the body of the operation threw: its catch throws the operation's
\* AppError, retryOperation rethrows it on the last attempt and sets a
\* timer otherwise (lines 138-142)
OpFails ==
  /\ IF LastAttempt(opTry)
     THEN /\ opPc' = "done"
          /\ opOutcome' = "rejected"
          /\ opError' = OpErrorOf(op)
     ELSE /\ opPc' = "backoff"
          /\ UNCHANGED <<opOutcome, opError>>
  /\ UNCHANGED <<op, opTry>>

\* retryOperation calls the body of the operation (line 137)
OpAttempt ==
  /\ opPc = "call"
  /\ op # "syncData"
  /\ IF op = "downloadAndConvertLivePhoto"
     THEN /\ opPc' = "sync"
          /\ CallsSyncData("GET")
     ELSE /\ opPc' = (CASE op = "syncLivePhoto" -> "convert"
                        [] op = "resolveConflict" -> "resolve"
                        [] op = "syncFile" -> "upload")
          /\ UNCHANGED <<input, ctl, out, meta, hist>>
  /\ converter' = "none"
  /\ UNCHANGED <<op, opTry, opOutcome, opError, engineCalls, uploadCalls, conflict, aux>>

\* livePhotoService.convertToAndroidMotionPhoto resolves (lines 151-154,
\* 184-187): syncLivePhoto goes on to syncData, downloadAndConvertLivePhoto
\* returns the buffer
ConvertReturns ==
  /\ opPc = "convert"
  /\ IF op = "syncLivePhoto"
     THEN /\ opPc' = "sync"
          /\ CallsSyncData("POST")
          /\ UNCHANGED <<op, opTry, opOutcome, opError>>
     ELSE /\ OpReturns
          /\ UNCHANGED <<input, ctl, out, meta, hist>>
  /\ converter' = "convertToAndroidMotionPhoto"
  /\ UNCHANGED <<engineCalls, uploadCalls, conflict, aux>>

\* livePhotoService.convertToAndroidMotionPhoto rejects
ConvertThrows ==
  /\ opPc = "convert"
  /\ OpFails
  /\ UNCHANGED <<input, ctl, out, meta, hist, conflict, aux, tally>>

\* the call of syncData has ended.  A direct call ends with it; syncLivePhoto
\* returns its result (line 163); downloadAndConvertLivePhoto inspects
\* results[0] (lines 180-182), which the response may or may not fill; a
\* rejection goes to the catch of the operation
SyncDataEnds ==
  /\ opPc = "sync"
  /\ pc = "done"
  /\ IF op = "syncData"
     THEN /\ opPc' = "done"
          /\ opOutcome' = outcome
          /\ opError' = rejection
          /\ UNCHANGED <<op, opTry>>
     ELSE IF outcome = "rejected" THEN OpFails
     ELSE IF op = "syncLivePhoto" THEN OpReturns
     ELSE \/ /\ opPc' = "convert"
             /\ UNCHANGED <<op, opTry, opOutcome, opError>>
          \/ OpFails
  /\ uploadCalls' = (IF op = "syncLivePhoto" THEN uploadCalls + batchCalls ELSE uploadCalls)
  /\ UNCHANGED <<input, ctl, out, meta, hist, conflict, aux, engineCalls, converter>>

\* conflictResolutionService.resolveConflict has answered (lines 202-208);
\* the name it is called with is the strategyName of the Dispatcher, whose
\* default is 'lastWriteWins' too (line 198)
ResolveEnds ==
  /\ opPc = "resolve"
  /\ engineCalls' = engineCalls + 1
  /\ LET r == resolveConflict(heap, localData, cloudData, DefaultStrategy(strategyName)) IN
       /\ resolved' = [kind |-> r.kind, addr |-> r.addr, error |-> r.error, payload |-> r.payload,
                      ran |-> r.ran, raised |-> r.raised]
       /\ IF r.kind = "value"
          THEN heap' = r.heap /\ OpReturns
          ELSE heap' = heap /\ OpFails
  /\ UNCHANGED <<input, ctl, out, meta, hist, strategyName, localData, cloudData, aux,
                 uploadCalls, converter>>

\* webDAVService.uploadFile resolves (line 222)
UploadReturns ==
  /\ opPc = "upload"
  /\ OpReturns
  /\ UNCHANGED <<input, ctl, out, meta, hist, conflict, aux, tally>>

\* webDAVService.uploadFile rejects, or is no function (lines 219-222)
UploadThrows ==
  /\ opPc = "upload"
  /\ OpFails
  /\ UNCHANGED <<input, ctl, out, meta, hist, conflict, aux, tally>>

\* mutant of OpBackoff: the loop index is not advanced
OpBackoff_SameAttempt ==
  /\ opPc = "backoff"
  /\ opPc' = "call"
  /\ UNCHANGED <<input, ctl, out, meta, hist, conflict, aux, op, opTry, opOutcome, opError, tally>>

\* the timer of retryOperation fired (line 142): next round of the loop
OpBackoff ==
  /\ opPc = "backoff"
  /\ opTry' = opTry + 1
  /\ opPc' = "call"
  /\ UNCHANGED <<input, ctl, out, meta, hist, conflict, aux, op, opOutcome, opError, tally>>

NextCalls ==
  \/ OpAttempt
  \/ ConvertReturns
  \/ ConvertThrows
  \/ SyncDataEnds
  \/ ResolveEnds
  \/ UploadReturns
  \/ UploadThrows
  \/ OpBackoff
  \/ Next

SpecCalls == InitCalls /\ [][NextCalls]_vars

\* every continuation that can run does run: timers fire, collaborators
\* answer, awaited promises settle
FairCalls == SpecCalls /\ WF_vars(NextCalls)

\* C15: every call of a public operation ends; the loop indices of
\* retryOperation stay below MAX_RETRIES, and a call whose attempts are used
\* up ends rejected with an error.
C15_EveryCallTerminates ==
  /\ <>(opPc = "done")
  /\ [](/\ opTry < MAX_RETRIES /\ outerTry < MAX_RETRIES /\ innerTry < MAX_RETRIES
        /\ (opPc = "done" /\ opOutcome = "rejected") => opError # NoError
        /\ (opPc = "done") => opOutcome \in {"returned", "rejected"})

\* witness of C15: syncLivePhoto has used up its attempts and ended with its
\* failure
C15_Witness ==
  /\ op = "syncLivePhoto"
  /\ opPc = "done"
  /\ opOutcome = "rejected"
  /\ opTry = MAX_RETRIES - 1
  /\ opError = AppError("Failed to sync Live Photo", 500)

\* the call of DataSynchronizer.resolveConflict has ended
ResolveCallEnded == op = "resolveConflict" /\ opPc = "done"

\* C22: one call of DataSynchronizer.resolveConflict calls the service
\* exactly once, with the strategy of the call (last-write-wins when left
\* out), and ends as the service ended: returned with its value, or rejected
\* when the service failed, without a second call.
C22_PassThroughOnce ==
  ResolveCallEnded =>
     /\ engineCalls = 1
     /\ resolved.ran = (IF DefaultStrategy(strategyName) \in Strategies
                        THEN DefaultStrategy(strategyName) ELSE "none")
     /\ (resolved.kind = "value") <=> (opOutcome = "returned")
     /\ (resolved.kind = "error") <=> (opOutcome = "rejected")

\* the part of C22 that holds: a resolution that succeeds is returned after
\* one call of the service, and a call never ends otherwise than the service
\* did
C22_PassThroughOnSuccess ==
  ResolveCallEnded =>
     /\ engineCalls \in 1..MAX_RETRIES
     /\ resolved.ran = (IF DefaultStrategy(strategyName) \in Strategies
                        THEN DefaultStrategy(strategyName) ELSE "none")
     /\ (resolved.kind = "value") <=> (opOutcome = "returned")
     /\ (resolved.kind = "error") <=> (opOutcome = "rejected")
     /\ (opOutcome = "returned") => engineCalls = 1
     /\ (opOutcome = "rejected") => engineCalls = MAX_RETRIES

\* C23: an AppError of the service with status 409 (manual resolution
\* required) or 400 (unknown strategy) is the error the call of
\* DataSynchronizer.resolveConflict rejects with: same name, message, status.
C23_DomainErrorUnchanged ==
  (ResolveCallEnded /\ resolved.kind = "error" /\ resolved.error.status \in {400, 409}) =>
     /\ opOutcome = "rejected"
     /\ opError = resolved.error

\* what holds instead: every failure of the service, whatever its kind,
\* ends the call with AppError('Failed to resolve conflict', 500)
C23_EveryErrorTranslated ==
  (ResolveCallEnded /\ resolved.kind = "error") =>
     /\ opOutcome = "rejected"
     /\ opError = AppError("Failed to resolve conflict", 500)

\* C27: syncLivePhoto sends a request only in an attempt whose conversion
\* has returned, makes at most MAX_RETRIES attempts, and has made at most
\* MAX_RETRIES network calls when it ends in failure.
C27_TranscodeThenUploadWithinBudget ==
  (op = "syncLivePhoto") =>
     /\ (inFlight > 0) => converter = "convertToAndroidMotionPhoto"
     /\ (opPc = "sync") => converter = "convertToAndroidMotionPhoto"
     /\ opTry < MAX_RETRIES
     /\ (opPc = "done" /\ opOutcome = "rejected") => uploadCalls <= MAX_RETRIES

\* what holds of syncLivePhoto: the order of conversion and upload, the
\* number of attempts, and MAX_RETRIES network calls for each of them
C27_TranscodeThenUpload ==
  (op = "syncLivePhoto") =>
     /\ (inFlight > 0) => converter = "convertToAndroidMotionPhoto"
     /\ (opPc = "sync") => converter = "convertToAndroidMotionPhoto"
     /\ opTry < MAX_RETRIES
     /\ uploadCalls <= MAX_RETRIES * (opTry + 1)
     /\ (opPc = "done" /\ opOutcome = "returned") => uploadCalls >= 1

\* C28: downloadAndConvertLivePhoto never calls the conversion that
\* syncLivePhoto applies (convertToAndroidMotionPhoto, still and clip to one
\* spliced file); what it returns was made by the opposite conversion,
\* convertToAppleLivePhoto.
C28_DownloadConvertsBack ==
  (op = "downloadAndConvertLivePhoto") =>
     /\ converter # "convertToAndroidMotionPhoto"
     /\ (opPc = "done" /\ opOutcome = "returned") => converter = "convertToAppleLivePhoto"

\* what holds of downloadAndConvertLivePhoto: the conversion runs only after
\* the pull of the attempt has returned, and it is the one syncLivePhoto
\* applies
C28_PullThenSameConversion ==
  (op = "downloadAndConvertLivePhoto") =>
     /\ (opPc = "convert") => (pc = "done" /\ outcome = "returned" /\ netMethods = {"GET"})
     /\ converter \in {"none", "convertToAndroidMotionPhoto"}
     /\ (opPc = "done" /\ opOutcome = "returned") => converter = "convertToAndroidMotionPhoto"

\* C30: one call of syncData never has two requests in flight; every slice
\* sent belongs to a finished batch or to the batch after the finished ones;
\* batches finish in source order, a failed one only with its attempts used
\* up; results and error entries stand in the order of the batches.
C30_BatchesOneAtATimeInOrder ==
  /\ inFlight <= 1
  /\ (mode = "batch") =>
        /\ \A s \in sent : s.from < (Len(batchLog) + 1) * BATCH_SIZE
        /\ \A s \in sent : s.from <= i
        /\ \A b \in 1..Len(batchLog) : batchLog[b].from = BatchFrom(b)
        /\ (inFlight > 0) => i = Len(batchLog) * BATCH_SIZE
        /\ (pc = "loop" /\ Len(batchLog) > 0 /\ LastBatch.status = "failed") =>
              outerTry = MAX_RETRIES - 1
        /\ results = ExpectedResults(batchLog)
        /\ Ids(errors) = FailedIds(batchLog)

\* witness of C30: the first batch has failed, the second has succeeded, and
\* the request of the third is in flight
C30_Witness ==
  /\ mode = "batch"
  /\ Len(batchLog) = 2
  /\ batchLog[1].status = "failed"
  /\ batchLog[2].status = "ok"
  /\ inFlight = 1
  /\ i = 2 * BATCH_SIZE
  /\ Len(results) > 0
  /\ Len(errors) = BATCH_SIZE

(***************************************************************************)
(* The Live Photo Service (src/unnamed/part_002, lines 28-137).  A file   *)
(* and a Buffer are sequences of bytes.  Every await of a conversion is a *)
(* step; the file system and ffmpeg answer or fail.                       *)
(***************************************************************************)
MaxBytes == 2

\* the bytes of the JPEG markers: start of image FF D8, end of image FF D9,
\* APP1 (Exif) FF E1
FF == 255
D8 == 216
D9 == 217
E1 == 225
\* the signature of a video container: QuickTime (.mov), MPEG-4 (.mp4)
MOV == 1
MP4 == 2

\* the byte sequences of at most n bytes of S
BytesUpTo(S, n) == UNION { [1..k -> S] : k \in 0..n }

\* buffer.indexOf(pattern): the 0-based index of the first occurrence, -1
\* when there is none
indexOf(buffer, pattern) ==
  LET hits == { k \in 0..(Len(buffer) - Len(pattern)) :
                  SubSeq(buffer, k + 1, k + Len(pattern)) = pattern }
  IN IF hits = {} THEN -1 ELSE CHOOSE k \in hits : \A j \in hits : k <= j

\* buffer.slice(start, end), 0 <= start
slice(buffer, start, end) == SubSeq(buffer, start + 1, Min(end, Len(buffer)))

\* the XMP packet of lines 113-127, shortened to its first bytes '<?x'; it
\* is UTF-8 text and holds no byte FF
xmpMetadata == <<60, 63, 120>>

\* embedMp4IntoJpeg (lines 112-136)
embedMp4IntoJpeg(jpegBuffer, mp4Buffer) ==
  LET exifEnd == indexOf(jpegBuffer, <<FF, E1>>) + 2
  IN slice(jpegBuffer, 0, exifEnd) \o xmpMetadata
       \o slice(jpegBuffer, exifEnd, Len(jpegBuffer)) \o mp4Buffer

\* extractJpegAndMp4, line 104
jpegEnd(buffer) == indexOf(buffer, <<FF, D9>>) + 2

\* ffmpeg reads a file as a video when it begins with a container signature
IsVideo(bytes) == bytes # <<>> /\ Head(bytes) \in {MOV, MP4}
\* ffmpeg as a lossless change of codec (lines 80-100): the container
\* changes, the clip does not
Transcode(bytes, container) == <<container>> \o Tail(bytes)

\* the paths: the arguments of the conversions and the temporary files
\* temp_<Date.now()>.jpg, .mp4, .mov in tempDir (lines 37, 57-59)
TempPaths == {"temp.jpg", "temp.mp4", "temp.mov"}

Exists(path) == path \in DOMAIN files
WriteFile(f, path, bytes) == [q \in DOMAIN f \cup {path} |-> IF q = path THEN bytes ELSE f[q]]
Unlink(f, paths) == [q \in DOMAIN f \ paths |-> f[q]]
Hold(b, name, bytes) == [q \in DOMAIN b \cup {name} |-> IF q = name THEN bytes ELSE b[q]]

\* well-formed stills: start of image, at most MaxBytes bytes, end of image
PlainStills == { <<FF, D8>> \o m \o <<FF, D9>> : m \in BytesUpTo({0, FF, D9, E1}, MaxBytes) }
\* stills with a metadata (APP1) segment after the start of image: the
\* marker FF E1, the length of the segment in two bytes (the two counted),
\* the payload
ExifStills == { <<FF, D8, FF, E1, 0, 2 + Len(payload)>> \o payload \o <<FF, D9>> :
                  payload \in BytesUpTo({0}, MaxBytes - 1) }
Stills == PlainStills \cup ExifStills
\* well-formed QuickTime clips
Videos == { <<MOV>> \o clip : clip \in {<<>>, <<0>>, <<FF, D9>>} }
\* files handed to convertToAppleLivePhoto: without an end-of-image marker,
\* or a still followed by an MPEG-4 clip
Unmarked == BytesUpTo({0, FF, D8, MP4}, MaxBytes + 1)
MotionPhotos ==
  Unmarked \cup { embedMp4IntoJpeg(<<FF, D8>> \o m \o <<FF, D9>>, <<MP4, 0>>) :
                    m \in BytesUpTo({0, E1}, 1) }

InitPhoto ==
  /\ \/ /\ lpJob = "convertToAndroidMotionPhoto"
        /\ lpPc = "android_start"
        /\ \E st \in Stills, v \in Videos :
              files = [q \in {"jpegPath", "movPath"} |-> IF q = "jpegPath" THEN st ELSE v]
     \/ /\ lpJob = "convertToAppleLivePhoto"
        /\ lpPc = "apple_readInput"
        /\ \E b \in MotionPhotos : files = [q \in {"motionPhotoPath"} |-> b]
  /\ PhotoFresh
  /\ KeyingIdle
  /\ ExtraIdle
  /\ ConflictIdle
  /\ NoSubmission
  /\ op = "none"
  /\ opPc = "call"
  /\ opTry = 0
  /\ opOutcome = "pending"
  /\ opError = NoError
  /\ NoTally

\* the message of the AppError the catch of the conversion throws (lines
\* 50, 76)
LpError ==
  IF lpJob = "convertToAndroidMotionPhoto"
  THEN AppError("Failed to convert Live Photo", 500)
  ELSE AppError("Failed to convert Motion Photo", 500)

\* an await of the conversion rejected: the catch (lines 48-51, 74-77) logs
\* and throws
LpFails ==
  /\ lpPc' = "done"
  /\ lpOut' = [NoOutput EXCEPT !.kind = "error", !.error = LpError]
  /\ toolRunning' = FALSE

\* convertMovToMp4(movPath, mp4Path) is called (line 38)
AndroidToolStarts ==
  /\ lpPc = "android_start"
  /\ lpPc' = "android_tool"
  /\ toolRunning' = TRUE
  /\ toolInputs' = toolInputs \cup {files["movPath"]}
  /\ UNCHANGED <<input, ctl, out, meta, hist, caller, conflict, keying, extra,
                 lpJob, files, held, lpOut, unlinked, chained>>

\* ffmpeg ends (lines 85): the MPEG-4 file is there
AndroidToolEnds ==
  /\ lpPc = "android_tool"
  /\ IsVideo(files["movPath"])
  /\ files' = WriteFile(files, "temp.mp4", Transcode(files["movPath"], MP4))
  /\ toolRunning' = FALSE
  /\ lpPc' = "android_readJpeg"
  /\ UNCHANGED <<input, ctl, out, meta, hist, caller, conflict, keying, extra,
                 lpJob, held, lpOut, toolInputs, unlinked, chained>>

\* ffmpeg fails (lines 86, 97), with or without an output file begun
ToolFails ==
  /\ lpPc \in {"android_tool", "apple_tool"}
  /\ \E begun \in BOOLEAN :
        LET output == IF lpPc = "android_tool" THEN "temp.mp4" ELSE "temp.mov"
        IN files' = IF begun THEN WriteFile(files, output, <<>>) ELSE files
  /\ LpFails
  /\ UNCHANGED <<input, ctl, out, meta, hist, caller, conflict, keying, extra,
                 lpJob, held, toolInputs, unlinked, chained>>

\* fs.readFile(jpegPath) resolves (line 40)
AndroidReadJpeg ==
  /\ lpPc = "android_readJpeg"
  /\ held' = Hold(held, "jpegBuffer", files["jpegPath"])
  /\ lpPc' = "android_readMp4"
  /\ UNCHANGED <<input, ctl, out, meta, hist, caller, conflict, keying, extra,
                 lpJob, files, lpOut, toolRunning, toolInputs, unlinked, chained>>

\* fs.readFile(mp4Path) resolves (line 41)
AndroidReadMp4 ==
  /\ lpPc = "android_readMp4"
  /\ held' = Hold(held, "mp4Buffer", files["temp.mp4"])
  /\ lpPc' = "android_unlink"
  /\ UNCHANGED <<input, ctl, out, meta, hist, caller, conflict, keying, extra,
                 lpJob, files, lpOut, toolRunning, toolInputs, unlinked, chained>>

\* a fs.readFile rejects (lines 40, 41, 64, 65, 103)
ReadFails ==
  /\ lpPc \in {"android_readJpeg", "android_readMp4", "apple_readInput",
               "apple_readJpeg", "apple_readMov"}
  /\ LpFails
  /\ UNCHANGED <<input, ctl, out, meta, hist, caller, conflict, keying, extra,
                 lpJob, files, held, toolInputs, unlinked, chained>>

\* embedMp4IntoJpeg, fs.unlink(mp4Path) resolves, the motion photo is
\* returned (lines 43-47)
AndroidUnlink ==
  /\ lpPc = "android_unlink"
  /\ files' = Unlink(files, {"temp.mp4"})
  /\ unlinked' = unlinked \cup {"temp.mp4"}
  /\ lpOut' = [NoOutput EXCEPT !.kind = "buffer",
                               !.buffer = embedMp4IntoJpeg(held["jpegBuffer"], held["mp4Buffer"])]
  /\ lpPc' = "done"
  /\ UNCHANGED <<input, ctl, out, meta, hist, caller, conflict, keying, extra,
                 lpJob, held, toolRunning, toolInputs, chained>>

\* fs.unlink rejects (lines 45, 67-71); of the three of
\* convertToAppleLivePhoto some may have removed their file
UnlinkFails ==
  /\ lpPc \in {"android_unlink", "apple_unlink"}
  /\ LET asked == IF lpPc = "android_unlink" THEN {"temp.mp4"} ELSE TempPaths IN
       /\ unlinked' = unlinked \cup asked
       /\ \E gone \in SUBSET asked :
             /\ gone # asked
             /\ files' = Unlink(files, gone)
  /\ LpFails
  /\ UNCHANGED <<input, ctl, out, meta, hist, caller, conflict, keying, extra,
                 lpJob, held, toolInputs, chained>>

\* extractJpegAndMp4: fs.readFile(input) resolves (line 103)
AppleReadInput ==
  /\ lpPc = "apple_readInput"
  /\ held' = Hold(held, "buffer", files["motionPhotoPath"])
  /\ lpPc' = "apple_write"
  /\ UNCHANGED <<input, ctl, out, meta, hist, caller, conflict, keying, extra,
                 lpJob, files, lpOut, toolRunning, toolInputs, unlinked, chained>>

\* extractJpegAndMp4: both fs.writeFile resolve (lines 104-109)
AppleWrite ==
  /\ lpPc = "apple_write"
  /\ LET buffer == held["buffer"] IN
       files' = WriteFile(WriteFile(files, "temp.jpg", slice(buffer, 0, jpegEnd(buffer))),
                          "temp.mp4", slice(buffer, jpegEnd(buffer), Len(buffer)))
  /\ lpPc' = "apple_start"
  /\ UNCHANGED <<input, ctl, out, meta, hist, caller, conflict, keying, extra,
                 lpJob, held, lpOut, toolRunning, toolInputs, unlinked, chained>>

\* extractJpegAndMp4: a fs.writeFile rejects (lines 106-109); the other one
\* may have written its file
AppleWriteFails ==
  /\ lpPc = "apple_write"
  /\ LET buffer == held["buffer"] IN
     \E written \in {{}, {"temp.jpg"}, {"temp.mp4"}} :
        files' = [q \in DOMAIN files \cup written |->
                    IF q = "temp.jpg" THEN slice(buffer, 0, jpegEnd(buffer))
                    ELSE IF q = "temp.mp4" THEN slice(buffer, jpegEnd(buffer), Len(buffer))
                    ELSE files[q]]
  /\ LpFails
  /\ UNCHANGED <<input, ctl, out, meta, hist, caller, conflict, keying, extra,
                 lpJob, held, toolInputs, unlinked, chained>>

\* convertMp4ToMov(mp4Path, movPath) is called (line 62)
AppleToolStarts ==
  /\ lpPc = "apple_start"
  /\ lpPc' = "apple_tool"
  /\ toolRunning' = TRUE
  /\ toolInputs' = toolInputs \cup {files["temp.mp4"]}
  /\ UNCHANGED <<input, ctl, out, meta, hist, caller, conflict, keying, extra,
                 lpJob, files, held, lpOut, unlinked, chained>>

\* ffmpeg ends (line 96): the QuickTime file is there
AppleToolEnds ==
  /\ lpPc = "apple_tool"
  /\ IsVideo(files["temp.mp4"])
  /\ files' = WriteFile(files, "temp.mov", Transcode(files["temp.mp4"], MOV))
  /\ toolRunning' = FALSE
  /\ lpPc' = "apple_readJpeg"
  /\ UNCHANGED <<input, ctl, out, meta, hist, caller, conflict, keying, extra,
                 lpJob, held, lpOut, toolInputs, unlinked, chained>>

\* fs.readFile(jpegPath) resolves (line 64)
AppleReadJpeg ==
  /\ lpPc = "apple_readJpeg"
  /\ held' = Hold(held, "jpeg", files["temp.jpg"])
  /\ lpPc' = "apple_readMov"
  /\ UNCHANGED <<input, ctl, out, meta, hist, caller, conflict, keying, extra,
                 lpJob, files, lpOut, toolRunning, toolInputs, unlinked, chained>>

\* fs.readFile(movPath) resolves (line 65)
AppleReadMov ==
  /\ lpPc = "apple_readMov"
  /\ held' = Hold(held, "mov", files["temp.mov"])
  /\ lpPc' = "apple_unlink"
  /\ UNCHANGED <<input, ctl, out, meta, hist, caller, conflict, keying, extra,
                 lpJob, files, lpOut, toolRunning, toolInputs, unlinked, chained>>

\* the three fs.unlink resolve, the pair is returned (lines 67-73)
AppleUnlink ==
  /\ lpPc = "apple_unlink"
  /\ files' = Unlink(files, TempPaths)
  /\ unlinked' = unlinked \cup TempPaths
  /\ lpOut' = [NoOutput EXCEPT !.kind = "pair", !.jpeg = held["jpeg"], !.mov = held["mov"]]
  /\ lpPc' = "done"
  /\ UNCHANGED <<input, ctl, out, meta, hist, caller, conflict, keying, extra,
                 lpJob, held, toolRunning, toolInputs, chained>>

\* the motion photo convertToAndroidMotionPhoto returned is stored and
\* convertToAppleLivePhoto is called on that file (line 54)
ConvertBack ==
  /\ lpPc = "done"
  /\ lpJob = "convertToAndroidMotionPhoto"
  /\ lpOut.kind = "buffer"
  /\ files' = WriteFile(files, "motionPhotoPath", lpOut.buffer)
  /\ lpJob' = "convertToAppleLivePhoto"
  /\ lpPc' = "apple_readInput"
  /\ held' = <<>>
  /\ lpOut' = NoOutput
  /\ toolInputs' = {}
  /\ unlinked' = {}
  /\ chained' = TRUE
  /\ UNCHANGED <<input, ctl, out, meta, hist, caller, conflict, keying, extra, toolRunning>>

NextPhoto ==
  \/ AndroidToolStarts
  \/ AndroidToolEnds
  \/ ToolFails
  \/ AndroidReadJpeg
  \/ AndroidReadMp4
  \/ ReadFails
  \/ AndroidUnlink
  \/ UnlinkFails
  \/ AppleReadInput
  \/ AppleWrite
  \/ AppleWriteFails
  \/ AppleToolStarts
  \/ AppleToolEnds
  \/ AppleReadJpeg
  \/ AppleReadMov
  \/ AppleUnlink
  \/ ConvertBack

SpecPhoto == InitPhoto /\ [][NextPhoto]_vars

\* the still and the clip convertToAndroidMotionPhoto was called on
Still == files["jpegPath"]
Clip == files["movPath"]
\* the temporary files that exist
TempFiles == DOMAIN files \cap TempPaths
\* the round trip has ended with a pair
RoundTripDone == chained /\ lpPc = "done" /\ lpOut.kind = "pair"
\* the only end-of-image marker of the still is its last two bytes
EndMarkerOnlyAtEnd(st) == indexOf(st, <<FF, D9>>) = Len(st) - 2

\* C24: with ffmpeg as a lossless change of container, the pair that
\* convertToAppleLivePhoto returns for the motion photo made by
\* convertToAndroidMotionPhoto holds the bytes of the original still and the
\* bytes of the original clip.
C24_RoundTripIdentity ==
  RoundTripDone =>
     /\ lpOut.jpeg = Still
     /\ lpOut.mov = Clip

\* what holds of the round trip: when the still has no end-of-image marker
\* before its end, the clip comes back as it was and the still comes back
\* with the XMP packet inserted
C24_RoundTripUpToMarker ==
  (RoundTripDone /\ EndMarkerOnlyAtEnd(Still)) =>
     /\ lpOut.mov = Clip
     /\ lpOut.jpeg = embedMp4IntoJpeg(Still, <<>>)
     /\ lpOut.jpeg # Still

\* C25: when a conversion has ended, by returning or by throwing, no
\* temporary file is left; no file is removed while ffmpeg runs.
C25_TempFilesRemoved ==
  /\ lpPc = "done" => TempFiles = {}
  /\ toolRunning => unlinked = {}

\* the part of C25 that holds: a conversion that returns leaves no temporary
\* file, and no file is removed while ffmpeg runs
C25_TempFilesRemovedOnSuccess ==
  /\ (lpPc = "done" /\ lpOut.kind # "error") => TempFiles = {}
  /\ toolRunning => unlinked = {}

\* convertToAppleLivePhoto was called on a file without end-of-image marker
NoEndMarker ==
  /\ lpJob = "convertToAppleLivePhoto"
  /\ indexOf(files["motionPhotoPath"], <<FF, D9>>) = -1

\* C26: for a file without end-of-image marker convertToAppleLivePhoto
\* writes no file, does not run ffmpeg, returns no pair and ends with its
\* AppError.
C26_NoEndMarkerFails ==
  NoEndMarker =>
     /\ TempFiles = {}
     /\ toolInputs = {}
     /\ lpOut.kind # "pair"
     /\ lpPc = "done" => lpOut.error = AppError("Failed to convert Motion Photo", 500)

\* a consequence of C26, which fails as well: a file without end-of-image
\* marker never comes back as a pair
C26_PairFromUnmarked ==
  NoEndMarker => ~(lpPc = "done" /\ lpOut.kind = "pair")

(***************************************************************************)
(* The key of a metadata file (AppleMetadataService.ts, lines 24-49).  A  *)
(* path is the sequence of its segments from the root; a fileId is split  *)
(* at its separators '/'.                                                  *)
(***************************************************************************)
MaxSegs == 3

\* the storagePath the service is constructed with
storagePath == <<"storage">>

RECURSIVE normalize(_, _)
\* path.normalize on the segments left to read, done holding the segments
\* kept so far: '' and '.' are dropped, '..' removes the segment before it
\* and is dropped at the root
normalize(segs, done) ==
  IF segs = <<>> THEN done
  ELSE LET seg == Head(segs) IN
       IF seg \in {"", "."} THEN normalize(Tail(segs), done)
       ELSE IF seg = ".."
       THEN normalize(Tail(segs), IF done = <<>> THEN <<>> ELSE SubSeq(done, 1, Len(done) - 1))
       ELSE normalize(Tail(segs), Append(done, seg))

\* path.join(base, name): the segments of both, normalized
join(base, name) == normalize(base \o name, <<>>)

\* this.metadataPath (line 25)
metadataPath == join(storagePath, <<"apple_metadata">>)

\* the segments of `${fileId}.json`
JsonName(id) == [k \in 1..Len(id) |-> IF k = Len(id) THEN id[k] \o ".json" ELSE id[k]]

\* const filePath = path.join(this.metadataPath, `${fileId}.json`) (lines
\* 31, 42)
FilePathOf(id) == join(metadataPath, JsonName(id))

\* the fileIds: up to MaxSegs segments, among them '..', '.' and ''
FileIds == UNION { [1..n -> {"a", "etc", "..", ".", ""}] : n \in 1..MaxSegs }

InitStore ==
  /\ fileId \in FileIds
  /\ storeOp \in {"saveMetadata", "getMetadata"}
  /\ filePath = <<>>
  /\ PhotoIdle
  /\ ExtraIdle
  /\ ConflictIdle
  /\ NoSubmission
  /\ op = "none"
  /\ opPc = "call"
  /\ opTry = 0
  /\ opOutcome = "pending"
  /\ opError = NoError
  /\ NoTally

\* saveMetadata(fileId, metadata) hands the path to fs.writeFile (lines
\* 30-32)
SaveMetadata ==
  /\ storeOp = "saveMetadata"
  /\ filePath = <<>>
  /\ filePath' = FilePathOf(fileId)
  /\ UNCHANGED <<input, ctl, out, meta, hist, caller, conflict, photo, extra, fileId, storeOp>>

\* getMetadata(fileId) hands the path to fs.readFile (lines 42-43)
GetMetadata ==
  /\ storeOp = "getMetadata"
  /\ filePath = <<>>
  /\ filePath' = FilePathOf(fileId)
  /\ UNCHANGED <<input, ctl, out, meta, hist, caller, conflict, photo, extra, fileId, storeOp>>

NextStore == SaveMetadata \/ GetMetadata

SpecStore == InitStore /\ [][NextStore]_vars

\* the path lies below the directory
Inside(dir, path) == Len(path) > Len(dir) /\ SubSeq(path, 1, Len(dir)) = dir

\* C29: whatever the fileId, the path handed to the file system by
\* saveMetadata and getMetadata lies inside the metadata directory.
C29_KeyInsideMetadataDir ==
  (filePath # <<>>) => Inside(metadataPath, filePath)

\* what holds: a fileId without a '..' segment is keyed inside the metadata
\* directory
C29_KeyInsideWithoutDotDot ==
  (filePath # <<>> /\ \A k \in 1..Len(fileId) : fileId[k] # "..") =>
     Inside(metadataPath, filePath)

(***************************************************************************)
(* The waits of one batch: retryOperation waits INITIAL_BACKOFF * 2^i      *)
(* after the failed attempt i of its own loop (lines 141-142) and rethrows *)
(* without waiting on the last one (line 138).  batchSync wraps singleSync *)
(* in one loop (lines 68-70) and singleSync wraps the network call in      *)
(* another (lines 92-101), so a batch has two attempt indices.             *)
(***************************************************************************)
\* C31 (as claimed): the wait that follows the a-th network call of a batch
\* (counted from 0) is INITIAL_BACKOFF * 2^a, which makes the waits between
\* consecutive calls 1000, 2000, 4000, 8000; no wait follows the call that
\* is the last of the budget.
C31_WaitsDoublePerCall ==
  pc \in {"backoffInner", "backoffOuter"} =>
    /\ batchCalls <= MAX_RETRIES - 1
    /\ delay = Backoff(batchCalls - 1)

\* C31 (what the code guarantees): each wait is INITIAL_BACKOFF * 2^i for
\* the attempt index i of the loop that waits, and neither loop waits after
\* its own last attempt.
C31_WaitsDoublePerLoop ==
  /\ pc = "backoffInner" => (delay = Backoff(innerTry) /\ ~LastAttempt(innerTry))
  /\ (pc = "backoffOuter" /\ serverWait = 0) =>
        (delay = Backoff(outerTry) /\ ~LastAttempt(outerTry))

\* C31: a batch waits after its second network call for the first wait of
\* the outer loop
C31_SecondWaitIsFirstBackoff ==
  pc = "backoffOuter" /\ batchCalls = 2 /\ delay = Backoff(0)

(***************************************************************************)
(* Timeouts: fetchWithTimeout aborts the request when its timer fires and  *)
(* throws Error('Request timed out') (lines 20, 31-32); the throw is       *)
(* caught by the retryOperation around the fetch (singleSync lines 92-101).*)
(***************************************************************************)
\* C32: a network call that the timer of fetchWithTimeout aborted is no
\* longer in flight, and it is handled as any failed network call: while
\* attempts of retryOperation are left the Dispatcher waits the backoff of
\* that attempt and sends the call again, and only the timeout of the last
\* attempt ends singleSync, with 'Request timed out' as the cause.
C32_TimeoutIsRetried ==
  timedOut =>
    /\ inFlight = 0
    /\ pc \in {"backoffInner", "fetch", "backoffOuter", "loop", "done"}
    /\ pc = "backoffInner" => (~LastAttempt(innerTry) /\ delay = Backoff(innerTry))
    /\ pc = "fetch" => innerTry > 0
    /\ pc \in {"backoffOuter", "loop", "done"} =>
          /\ LastAttempt(innerTry)
          /\ lastCause = Err("Error", "Request timed out", 0)

\* C32: a call timed out and the Dispatcher is about to send it again
C32_RetryAfterTimeout ==
  timedOut /\ pc = "fetch" /\ innerTry > 0

(***************************************************************************)
(* Two conversions at the same time.  Two top-level operations on Live     *)
(* Photos (syncLivePhoto, lines 150-153 of DataSynchronizer.ts) each call  *)
(* convertToAndroidMotionPhoto of the one LivePhotoService; each call      *)
(* names its temporary file temp_<Date.now()>.mp4 in the shared tempDir    *)
(* (line 37).  The steps of a call are its awaits; the environment does    *)
(* not fail here, so that a call alone always answers with its motion      *)
(* photo.                                                                  *)
(***************************************************************************)
MaxClock == 1
Convs == {1, 2}
RaceStills == {<<FF, D8, FF, D9>>, <<FF, D8, 0, FF, D9>>}
RaceClips == {<<MOV>>, <<MOV, 0>>}
\* the conversion has not read Date.now() yet
NoPath == -1

InitRace ==
  /\ now = 0
  /\ mp4Path = [p \in Convs |-> NoPath]
  /\ racePc = [p \in Convs |-> "start"]
  /\ raceIn \in [Convs -> [jpeg : RaceStills, mov : RaceClips]]
  /\ raceHeld = [p \in Convs |-> <<>>]
  /\ raceOut = [p \in Convs |-> NoOutput]
  /\ tempDir = <<>>
  /\ BaggingIdle
  /\ QueueIdle
  /\ PhotoIdle
  /\ KeyingIdle
  /\ ConflictIdle
  /\ NoSubmission
  /\ NoCall

\* the clock moves on
Tick ==
  /\ now < MaxClock
  /\ now' = now + 1
  /\ UNCHANGED <<input, ctl, out, meta, hist, caller, conflict, photo, keying,
                 bagging, queueing, mp4Path, racePc, raceIn, raceHeld, raceOut, tempDir>>

\* lines 37-38: the path is built from Date.now() and ffmpeg is started
RaceStarts(p) ==
  /\ racePc[p] = "start"
  /\ mp4Path' = [mp4Path EXCEPT ![p] = now]
  /\ racePc' = [racePc EXCEPT ![p] = "tool"]
  /\ UNCHANGED <<input, ctl, out, meta, hist, caller, conflict, photo, keying,
                 bagging, queueing, now, raceIn, raceHeld, raceOut, tempDir>>

\* ffmpeg ends (line 85): its output is at mp4Path, whatever was there
RaceToolEnds(p) ==
  /\ racePc[p] = "tool"
  /\ tempDir' = WriteFile(tempDir, mp4Path[p], Transcode(raceIn[p].mov, MP4))
  /\ racePc' = [racePc EXCEPT ![p] = "readJpeg"]
  /\ UNCHANGED <<input, ctl, out, meta, hist, caller, conflict, photo, keying,
                 bagging, queueing, now, mp4Path, raceIn, raceHeld, raceOut>>

\* fs.readFile(jpegPath) (line 40)
RaceReadJpeg(p) ==
  /\ racePc[p] = "readJpeg"
  /\ raceHeld' = [raceHeld EXCEPT ![p] = Hold(@, "jpegBuffer", raceIn[p].jpeg)]
  /\ racePc' = [racePc EXCEPT ![p] = "readMp4"]
  /\ UNCHANGED <<input, ctl, out, meta, hist, caller, conflict, photo, keying,
                 bagging, queueing, now, mp4Path, raceIn, raceOut, tempDir>>

\* fs.readFile(mp4Path) (line 41) finds the file
RaceReadMp4(p) ==
  /\ racePc[p] = "readMp4"
  /\ mp4Path[p] \in DOMAIN tempDir
  /\ raceHeld' = [raceHeld EXCEPT ![p] = Hold(@, "mp4Buffer", tempDir[mp4Path[p]])]
  /\ racePc' = [racePc EXCEPT ![p] = "unlink"]
  /\ UNCHANGED <<input, ctl, out, meta, hist, caller, conflict, photo, keying,
                 bagging, queueing, now, mp4Path, raceIn, raceOut, tempDir>>

\* fs.readFile(mp4Path) or fs.unlink(mp4Path) (lines 41, 45) finds no
\* file: the catch throws (lines 48-51)
RaceFileGone(p) ==
  /\ racePc[p] \in {"readMp4", "unlink"}
  /\ mp4Path[p] \notin DOMAIN tempDir
  /\ raceOut' = [raceOut EXCEPT ![p] =
        [NoOutput EXCEPT !.kind = "error",
                         !.error = AppError("Failed to convert Live Photo", 500)]]
  /\ racePc' = [racePc EXCEPT ![p] = "done"]
  /\ UNCHANGED <<input, ctl, out, meta, hist, caller, conflict, photo, keying,
                 bagging, queueing, now, mp4Path, raceIn, raceHeld, tempDir>>

\* embedMp4IntoJpeg, fs.unlink(mp4Path), return (lines 43-47)
RaceUnlink(p) ==
  /\ racePc[p] = "unlink"
  /\ mp4Path[p] \in DOMAIN tempDir
  /\ tempDir' = Unlink(tempDir, {mp4Path[p]})
  /\ raceOut' = [raceOut EXCEPT ![p] =
        [NoOutput EXCEPT !.kind = "buffer",
                         !.buffer = embedMp4IntoJpeg(raceHeld[p]["jpegBuffer"],
                                                     raceHeld[p]["mp4Buffer"])]]
  /\ racePc' = [racePc EXCEPT ![p] = "done"]
  /\ UNCHANGED <<input, ctl, out, meta, hist, caller, conflict, photo, keying,
                 bagging, queueing, now, mp4Path, raceIn, raceHeld>>

NextRace ==
  \/ Tick
  \/ \E p \in Convs : RaceStarts(p)
  \/ \E p \in Convs : RaceToolEnds(p)
  \/ \E p \in Convs : RaceReadJpeg(p)
  \/ \E p \in Convs : RaceReadMp4(p)
  \/ \E p \in Convs : RaceFileGone(p)
  \/ \E p \in Convs : RaceUnlink(p)

SpecRace == InitRace /\ [][NextRace]_vars

\* what the conversion p answers when it runs alone
Alone(p) ==
  [NoOutput EXCEPT !.kind = "buffer",
                   !.buffer = embedMp4IntoJpeg(raceIn[p].jpeg, Transcode(raceIn[p].mov, MP4))]

\* C33 (as claimed): under every interleaving of two operations, also of
\* two that start at the same clock instant, each one's outcome is the
\* outcome it produces when it runs alone.
C33_OutcomeAsAlone ==
  \A p \in Convs : racePc[p] = "done" => raceOut[p] = Alone(p)

\* C33 (what the code guarantees): the outcomes are those of the operations
\* alone when the two temporary paths differ, which is when the two
\* conversions read different clock values.
C33_OutcomeAsAloneApart ==
  mp4Path[1] # mp4Path[2] =>
     \A p \in Convs : racePc[p] = "done" => raceOut[p] = Alone(p)

\* C33: a conversion answered with the clip of the other one
C33_ForeignClip ==
  \E p \in Convs :
     /\ racePc[p] = "done"
     /\ raceOut[p].kind = "buffer"
     /\ raceIn[1].mov # raceIn[2].mov
     /\ raceOut[p].buffer = embedMp4IntoJpeg(raceIn[p].jpeg, Transcode(raceIn[3 - p].mov, MP4))

(***************************************************************************)
(* Re-dispatch.  singleSync runs the metadata side effect inside the try   *)
(* that also holds the network call (lines 91-128), and batchSync retries  *)
(* the whole of singleSync (lines 68-70).                                  *)
(***************************************************************************)
\* C34 (as claimed): within one syncData call no network call goes out for
\* records that a call answered with a success status (and a body that was
\* read) has carried already; a failure of the metadata side effect that
\* follows the successful write does not make the batch go out again.
C34_NoResendAfterSuccess ==
  pc = "inflight" => CurPositions \cap okParsed = {}

\* C34 (what the code guarantees): a submission that does not take the
\* batch path is never sent again after a success status.
C34_NoResendAfterSuccessSingle ==
  (pc = "inflight" /\ mode = "single") => okParsed = {}

\* C34: the batch goes out again after its metadata side effect failed
C34_ResentAfterMetadataFailure ==
  /\ pc = "inflight"
  /\ mode = "batch"
  /\ CurPositions \subseteq okParsed
  /\ batchCalls = 2

(***************************************************************************)
(* Merge of keys that only the local record holds, or that the two records *)
(* hold with values of different kinds (deepMerge lines 44-56).            *)
(***************************************************************************)
Kind(v) == IF v.t = "ref" THEN "object" ELSE IF v.t = "arr" THEN "array" ELSE "scalar"

\* the key k of the local record has no counterpart of its kind in the
\* cloud record
Unmatched(k) ==
  \/ k \notin DOMAIN CloudRecord
  \/ Kind(CloudRecord[k]) # Kind(LocalRecord[k])

\* the merged record holds the local value under k
LocalKept(k) ==
  /\ k \in DOMAIN heap[resolved.addr]
  /\ DeepEq(heap, heap[resolved.addr][k], LocalRecord[k])

C35_ScalarAndLocalOnlyObjectKept ==
  (Answered /\ strategyName = "merge" /\ AcyclicInputs /\ resolved.kind = "value") =>
     \A k \in DOMAIN LocalRecord :
        ( \/ Kind(LocalRecord[k]) = "scalar"
          \/ Kind(LocalRecord[k]) = "object" /\ k \notin DOMAIN CloudRecord ) => LocalKept(k)

\* C35: merge threw on a local array under a key the cloud record lacks
C35_LocalOnlyArrayThrows ==
  /\ Answered /\ strategyName = "merge" /\ AcyclicInputs
  /\ resolved.kind = "error"
  /\ \E k \in DOMAIN LocalRecord : LocalRecord[k].t = "arr" /\ k \notin DOMAIN CloudRecord

\* C35: merge returned without the local nested object where the cloud
\* record holds a scalar
C35_LocalObjectLost ==
  /\ Answered /\ strategyName = "merge" /\ AcyclicInputs
  /\ resolved.kind = "value"
  /\ \E k \in DOMAIN LocalRecord \cap DOMAIN CloudRecord :
        /\ LocalRecord[k].t = "ref" /\ Kind(CloudRecord[k]) = "scalar"
        /\ DOMAIN heap[LocalRecord[k].a] # {}
        /\ ~LocalKept(k)

(***************************************************************************)
(* Termination of merge.  deepMerge records the output of every source     *)
(* object it starts on (line 41) and answers a second visit from the map   *)
(* (lines 36-38); it recurses on nested objects of the source only (line   *)
(* 51) and never into arrays.                                              *)
(***************************************************************************)
\* the objects deepMerge created: one per call that did not answer from
\* the map
OutputsMade == Len(heap) - Cardinality(InputAddrs)

\* C36: for every pair of records, those that reach themselves or share
\* sub-records included, the merge strategy comes to an answer after
\* starting on each object reachable from the local record at most once:
\* the number of deepMerge calls is bounded by the size of the local record.
C36_MergeTerminates ==
  (Answered /\ strategyName = "merge") =>
     /\ resolved.kind \in {"value", "error"}
     /\ OutputsMade <= Cardinality(Reachable(heap, localData, {}))

\* C36: merge answered for a local record that reaches itself and a cloud
\* record that does too
C36_AnsweredOnCycles ==
  /\ Answered /\ strategyName = "merge"
  /\ HasCycle(heap, localData, {})
  /\ HasCycle(heap, cloudData, {})
  /\ OutputsMade >= 1

(***************************************************************************)
(* Where embedMp4IntoJpeg puts the marker block (lines 129-135).  A        *)
(* metadata segment of a still is the marker FF E1, two bytes that hold    *)
(* the length of the rest of the segment (themselves included), and the    *)
(* payload; the start-of-image marker is the two bytes FF D8.              *)
(***************************************************************************)
\* the still starts with FF D8 and, if it holds FF E1 at all, holds it
\* right after the start of image as the marker of a segment that fits
WellSegmented(st) ==
  LET at == indexOf(st, <<FF, E1>>) IN
  /\ SubSeq(st, 1, 2) = <<FF, D8>>
  /\ at # -1 =>
       /\ at = 2
       /\ Len(st) >= at + 4
       /\ st[at + 3] * 256 + st[at + 4] >= 2
       /\ at + 2 + st[at + 3] * 256 + st[at + 4] <= Len(st)

\* the offset after the metadata segment of a well segmented still; after
\* the start-of-image marker when it has no such segment
MetadataEnd(st) ==
  LET at == indexOf(st, <<FF, E1>>) IN
  IF at = -1 THEN 2 ELSE at + 2 + st[at + 3] * 256 + st[at + 4]

MotionPhotoMade ==
  lpJob = "convertToAndroidMotionPhoto" /\ lpPc = "done" /\ lpOut.kind = "buffer"

\* C37 (as claimed): the motion photo is the still with the marker block
\* inserted at one position, right after the end of the still's metadata
\* segment (after the start-of-image marker when there is none), followed
\* by the whole MPEG-4 clip; no byte of the still is dropped or reordered.
C37_MarkerAfterMetadataSegment ==
  (MotionPhotoMade /\ WellSegmented(Still)) =>
     lpOut.buffer = slice(Still, 0, MetadataEnd(Still)) \o xmpMetadata
                      \o slice(Still, MetadataEnd(Still), Len(Still))
                      \o Transcode(Clip, MP4)

\* C37 (what the code guarantees): the marker block is inserted at one
\* position, two bytes after the first FF E1 (at offset 1 when there is
\* none); the bytes of the still are all there in their order and the
\* whole clip follows.
C37_MarkerAfterMarkerBytes ==
  MotionPhotoMade =>
     LET exifEnd == indexOf(Still, <<FF, E1>>) + 2 IN
     /\ SubSeq(lpOut.buffer, exifEnd + 1, exifEnd + Len(xmpMetadata)) = xmpMetadata
     /\ SubSeq(lpOut.buffer, 1, exifEnd)
          \o SubSeq(lpOut.buffer, exifEnd + Len(xmpMetadata) + 1, Len(lpOut.buffer))
          = Still \o Transcode(Clip, MP4)

\* C37: the marker block stands between the marker of the metadata segment
\* and the length of the segment
C37_MarkerInsideSegment ==
  /\ MotionPhotoMade /\ WellSegmented(Still)
  /\ indexOf(Still, <<FF, E1>>) = 2
  /\ SubSeq(lpOut.buffer, 1, 4 + Len(xmpMetadata)) = <<FF, D8, FF, E1>> \o xmpMetadata

\* C37: the marker block stands between the two bytes of the start-of-image
\* marker
C37_MarkerInsideStartOfImage ==
  /\ MotionPhotoMade /\ WellSegmented(Still)
  /\ indexOf(Still, <<FF, E1>>) = -1
  /\ SubSeq(lpOut.buffer, 1, 2 + Len(xmpMetadata)) = <<FF>> \o xmpMetadata \o <<D8>>

(***************************************************************************)
(* convertToAppleMetadata as a function of the bag (AppleMetadataService   *)
(* lines 79-96): called once on a bag in which any field may be absent.    *)
(***************************************************************************)
\* a bag with every field
FullBag ==
  [ dateCreated |-> Some(1000), dateModified |-> Some(2000),
    label |-> Some("work"), tags |-> Some(<<"a", ",", "b">>),
    uti |-> Some("public.jpeg"), quarantineAttribute |-> Some("q"),
    finderFlags |-> Some(4),
    acl |-> Some([text |-> "[u]", valid |-> TRUE, value |-> <<"u">>]),
    spotlightComments |-> Some("note"), contentCreationDate |-> Some(500),
    customMetadata |-> Some([text |-> "{k}", valid |-> TRUE, value |-> <<"k">>]) ]

\* the bags that lack any of the fields
PartialBags ==
  { [f \in DOMAIN FullBag |-> IF f \in present THEN FullBag[f] ELSE None] :
      present \in SUBSET DOMAIN FullBag }

InitBag ==
  /\ androidMetadata \in PartialBags
  /\ appleMetadata = <<>>
  /\ RaceIdle
  /\ QueueIdle
  /\ PhotoIdle
  /\ KeyingIdle
  /\ ConflictIdle
  /\ NoSubmission
  /\ NoCall

\* what the call throws: toISOString of an invalid date (lines 81, 82, 93),
\* JSON.parse of a text that is no JSON (lines 89, 94)
ConvertError(m) ==
  IF ~DateOk(m.dateCreated) \/ ~DateOk(m.dateModified)
  THEN Err("RangeError", "Invalid time value", 0)
  ELSE Err("SyntaxError", "Unexpected token", 0)

\* one call of convertToAppleMetadata(androidMetadata)
ConvertCall ==
  /\ appleMetadata = <<>>
  /\ appleMetadata' =
       IF ConvertOk(androidMetadata)
       THEN [kind |-> "value", bag |-> ConvertToAppleMetadata(androidMetadata), error |-> NoError]
       ELSE [kind |-> "error", bag |-> <<>>, error |-> ConvertError(androidMetadata)]
  /\ UNCHANGED <<input, ctl, out, meta, hist, caller, conflict, photo, keying,
                 race, queueing, androidMetadata>>

NextBag == ConvertCall

SpecBag == InitBag /\ [][NextBag]_vars

Converted == appleMetadata # <<>>

\* the text, number, list and JSON fields that the bag lacks are empty or
\* zero in the result
OptionalDefaulted ==
  /\ ~IsSome(androidMetadata.label) => appleMetadata.bag.label = ""
  /\ ~IsSome(androidMetadata.tags) => appleMetadata.bag.tags = <<>>
  /\ ~IsSome(androidMetadata.uti) => appleMetadata.bag.uti = ""
  /\ ~IsSome(androidMetadata.quarantineAttribute) => appleMetadata.bag.quarantineAttribute = ""
  /\ ~IsSome(androidMetadata.finderFlags) => appleMetadata.bag.finderFlags = 0
  /\ ~IsSome(androidMetadata.acl) => appleMetadata.bag.acl = <<>>
  /\ ~IsSome(androidMetadata.spotlightComments) => appleMetadata.bag.spotlightComments = ""
  /\ ~IsSome(androidMetadata.customMetadata) => appleMetadata.bag.customMetadata = <<>>

\* C38 (as claimed): convertToAppleMetadata does not fail on a bag with
\* absent fields, the creation and modification timestamps included: it
\* returns a bag in which every absent field has its empty or zero default.
C38_AbsentFieldsNeverFail ==
  Converted => (appleMetadata.kind = "value" /\ OptionalDefaulted)

\* C38 (what the code guarantees): on a bag that holds both timestamps the
\* call returns a bag with the defaults for the other absent fields, and an
\* absent content creation date becomes the creation date.
C38_DefaultsWhenDatesPresent ==
  ( /\ Converted
    /\ IsSome(androidMetadata.dateCreated)
    /\ IsSome(androidMetadata.dateModified) ) =>
     /\ appleMetadata.kind = "value"
     /\ OptionalDefaulted
     /\ ~IsSome(androidMetadata.contentCreationDate) =>
           appleMetadata.bag.contentCreationDate = appleMetadata.bag.creationDate

\* C38: the call threw on a bag without creation timestamp
C38_AbsentDateThrows ==
  /\ Converted
  /\ ~IsSome(androidMetadata.dateCreated)
  /\ appleMetadata.kind = "error"
  /\ appleMetadata.error.name = "RangeError"

(***************************************************************************)
(* The caller's records.  syncData reads its data argument (lines 42-129); *)
(* the strategies of the Conflict Resolution Service return one of the two *)
(* records or build an output object (ConflictResolutionService lines      *)
(* 13-60).                                                                 *)
(***************************************************************************)
\* C39: no step of syncData changes the records it was called with, no
\* step of resolveConflict changes an object of the two records it was
\* called with, whatever the strategy, and a merged result is an object
\* that is none of them.
C39_CallerRecordsUntouched ==
  /\ [][op = "syncData" => data' = data]_vars
  /\ [][\A a \in InputAddrs \cap DOMAIN heap :
           a \in DOMAIN heap' /\ heap'[a] = heap[a]]_vars
  /\ []((op = "resolveConflict" /\ resolved.kind = "value" /\ resolved.ran = "merge")
          => resolved.addr \notin InputAddrs)

\* C39: merge returned a record built from a local record with a nested
\* object and a cloud record with nested objects
C39_MergedIntoNewRecord ==
  /\ op = "resolveConflict" /\ opPc = "done"
  /\ resolved.kind = "value" /\ resolved.ran = "merge"
  /\ resolved.addr > Cardinality(InputAddrs)
  /\ LocalRecord["a"].t = "ref"
  /\ CloudRecord["a"].t = "ref"
  /\ heap[resolved.addr]["a"].t = "ref"
  /\ heap[resolved.addr]["a"].a > Cardinality(InputAddrs)

(***************************************************************************)
(* The sync queue of the orchestrator (syncOrchestrator.ts).  One          *)
(* SyncQueue per router (line 30); POST /enqueue pushes a task (lines      *)
(* 32-36); GET /process-queue takes tasks while the queue is not empty     *)
(* and awaits processTask for each (lines 38-54).  A handler runs without  *)
(* interruption between two awaits, so the steps of a request are: from    *)
(* its start, or from the end of an awaited task, up to the next await or  *)
(* the response.                                                           *)
(***************************************************************************)
MaxTasks == 3
Drains == {1, 2}
\* the types processTask knows (lines 74-81) and one it does not
KnownTypes == {"drive", "photo", "contact", "live-photo"}
TaskTypes == {"photo", "live-photo", "calendar"}

\* SyncQueue (lines 8-22)
enqueue(q, item) == Append(q, item)
dequeue_Pop(q) == [item |-> q[Len(q)], rest |-> SubSeq(q, 1, Len(q) - 1)]
dequeue(q) == [item |-> Head(q), rest |-> Tail(q)]
isEmpty(q) == Len(q) = 0

NoTask == [id |-> 0, type |-> "none"]

InitQueue ==
  /\ queue = <<>>
  /\ enqueued = <<>>
  /\ taken = <<>>
  /\ drain = [d \in Drains |-> [pc |-> "idle", task |-> NoTask, results |-> <<>>]]
  /\ RaceIdle
  /\ BaggingIdle
  /\ PhotoIdle
  /\ KeyingIdle
  /\ ConflictIdle
  /\ NoSubmission
  /\ NoCall

\* POST /enqueue (lines 32-36)
Enqueue(type) ==
  /\ Len(enqueued) < MaxTasks
  /\ LET task == [id |-> Len(enqueued) + 1, type |-> type] IN
       /\ queue' = enqueue(queue, task)
       /\ enqueued' = Append(enqueued, task)
  /\ UNCHANGED <<input, ctl, out, meta, hist, caller, conflict, photo, keying,
                 race, bagging, taken, drain>>

\* the while of /process-queue (lines 40-43, 53) for the request d whose
\* results are rs: respond when the queue is empty, else take the next task
\* and call processTask
LoopTurn(d, rs) ==
  IF isEmpty(queue)
  THEN /\ drain' = [drain EXCEPT ![d] = [pc |-> "responded", task |-> NoTask, results |-> rs]]
       /\ UNCHANGED <<queue, taken>>
  ELSE /\ queue' = dequeue(queue).rest
       /\ taken' = Append(taken, dequeue(queue).item)
       /\ drain' = [drain EXCEPT ![d] = [pc |-> "await", task |-> dequeue(queue).item,
                                         results |-> rs]]

\* GET /process-queue arrives (lines 38-41)
DrainStarts(d) ==
  /\ drain[d].pc = "idle"
  /\ LoopTurn(d, <<>>)
  /\ UNCHANGED <<input, ctl, out, meta, hist, caller, conflict, photo, keying,
                 race, bagging, enqueued>>

\* processTask resolved (lines 43-44): the result entry, the next turn
TaskSucceeds(d) ==
  /\ drain[d].pc = "await"
  /\ drain[d].task.type \in KnownTypes
  /\ LoopTurn(d, Append(drain[d].results,
                        [task |-> drain[d].task, status |-> "success", error |-> ""]))
  /\ UNCHANGED <<input, ctl, out, meta, hist, caller, conflict, photo, keying,
                 race, bagging, enqueued>>

\* processTask rejected (lines 45-50): with 'Unknown sync type' for a type
\* it does not know (line 83), with the error of the Dispatcher otherwise
TaskFails(d) ==
  /\ drain[d].pc = "await"
  /\ LET message == IF drain[d].task.type \in KnownTypes
                    THEN (IF drain[d].task.type = "live-photo"
                          THEN "Failed to sync Live Photo" ELSE "Failed to sync data")
                    ELSE "Unknown sync type"
     IN LoopTurn(d, Append(drain[d].results,
                           [task |-> drain[d].task, status |-> "failed", error |-> message]))
  /\ UNCHANGED <<input, ctl, out, meta, hist, caller, conflict, photo, keying,
                 race, bagging, enqueued>>

NextQueue ==
  \/ \E type \in TaskTypes : Enqueue(type)
  \/ \E d \in Drains : DrainStarts(d)
  \/ \E d \in Drains : TaskSucceeds(d)
  \/ \E d \in Drains : TaskFails(d)

SpecQueue == InitQueue /\ [][NextQueue]_vars

\* the result entries for the task with this id, over all requests
EntriesFor(id) ==
  { <<d, n>> \in Drains \X (1..MaxTasks) :
       n <= Len(drain[d].results) /\ drain[d].results[n].task.id = id }
\* the requests that await the task with this id
AwaitedBy(id) == { d \in Drains : drain[d].pc = "await" /\ drain[d].task.id = id }

\* C40: every task is taken out at most once and in enqueue order, also
\* with two process-queue requests at once and with enqueues during a
\* drain; a task taken out is being processed by one request or has exactly
\* one result entry; a task that fails, one of unknown type included, has a
\* 'failed' entry and the tasks after it are processed all the same; a
\* request responds only when the queue is empty.
C40_EachTaskOnceInOrder ==
  /\ [](/\ enqueued = taken \o queue
        /\ \A n \in 1..Len(taken) :
              /\ Cardinality(EntriesFor(taken[n].id)) + Cardinality(AwaitedBy(taken[n].id)) = 1
              /\ \A e \in EntriesFor(taken[n].id) :
                    LET entry == drain[e[1]].results[e[2]] IN
                    /\ entry.task = taken[n]
                    /\ taken[n].type \notin KnownTypes =>
                          (entry.status = "failed" /\ entry.error = "Unknown sync type")
        /\ \A d \in Drains : \A m, n \in 1..Len(drain[d].results) :
              m < n => drain[d].results[m].task.id < drain[d].results[n].task.id)
  /\ [][\A d \in Drains :
          (drain[d].pc # "responded" /\ drain'[d].pc = "responded") =>
             (isEmpty(queue) /\ isEmpty(queue'))]_vars

\* C40: two requests drained the queue together; a task of unknown type
\* failed in one of them, which went on to process a later task, and a task
\* was enqueued while a drain was running
C40_TwoDrainsWithFailure ==
  /\ \A d \in Drains : drain[d].pc = "responded" /\ drain[d].results # <<>>
  /\ Len(taken) = MaxTasks
  /\ \E d \in Drains : \E m, n \in 1..Len(drain[d].results) :
        /\ m < n
        /\ drain[d].results[m].status = "failed"
        /\ drain[d].results[m].task.type \notin KnownTypes
        /\ drain[d].results[n].status = "success"

=============================================================================
